---- MODULE Spec2Model ----
(***************************************************************************)
(* A model of socratic-logic: the formula algebra (op.py), the interval    *)
(* and sentence encodings and the entailment driver (theory.py), and the   *)
(* test drivers that exercise them (test.py, hajek.py, demo.py).           *)
(*                                                                         *)
(* Truth values are the rationals k/Den, k in 0..Den, held as the integer  *)
(* k.  The gap variable is not put on the grid: every constraint that      *)
(* mentions gap bounds it from above, so a constraint is evaluated to the  *)
(* room it leaves for gap, and the room is compared with the tolerance.    *)
(***************************************************************************)
EXTENDS Integers, Sequences, FiniteSets, TLC

VARIABLES theory, query, logic, m, res, pc

vars == <<theory, query, logic, m, res, pc>>

\* Resolution of the truth-value grid.
Den == 4

\* 1 / 1e-8, the tolerance of Theory.entails.
EpsInv == 100000000

(***************************************************************************)
(* op.py: Logic and the formula classes                                    *)
(***************************************************************************)
GODEL == "Logic.GODEL"
LUKASIEWICZ == "Logic.LUKASIEWICZ"
Logic == {GODEL, LUKASIEWICZ}

\* Operator.logic when no override is given (Python None).
NoLogic == "None"

Prop(name) == [type |-> "Prop", name |-> name]

Const(val) == [type |-> "Const", val |-> val]

Operator(type, args, lg) == [type |-> type, operands |-> args, logic |-> lg]

And(args) == Operator("And", args, NoLogic)

WeakAnd(args) == Operator("WeakAnd", args, NoLogic)

Or(args) == Operator("Or", args, NoLogic)

WeakOr(args) == Operator("WeakOr", args, NoLogic)

Implies(lhs, rhs) == Operator("Implies", <<lhs, rhs>>, NoLogic)

Equiv(lhs, rhs) == Operator("Equiv", <<lhs, rhs>>, NoLogic)

Not(arg) == Operator("Not", <<arg>>, NoLogic)

Inv(arg) == Operator("Inv", <<arg>>, NoLogic)

Delta(arg) == Operator("Delta", <<arg>>, NoLogic)

Nabla(arg) == Operator("Nabla", <<arg>>, NoLogic)

\* The longest run of decimals repr writes for a float.
MaxDigits == 17

RECURSIVE Decimals(_, _, _)

\* The decimals of rem / d, the shortest that give the value back.
Decimals(rem, d, k) ==
    IF rem = 0 \/ k = 0 THEN ""
    ELSE ToString((rem * 10) \div d) \o Decimals((rem * 10) % d, d, k - 1)

\* repr of an int or of a float: 2, 2.0, 0.5, -1, nan.
ReprReal(r) ==
    LET abs == IF r.n < 0 THEN -r.n ELSE r.n
        sign == IF r.n < 0 THEN "-" ELSE ""
    IN  IF r.py = "int" THEN ToString(r.n)
        ELSE IF r.d = 0 THEN "nan"
        ELSE sign \o ToString(abs \div r.d) \o "."
             \o (IF abs % r.d = 0 THEN "0" ELSE Decimals(abs % r.d, r.d, MaxDigits))

\* A Python Real: an int n, or a float of value n/d (d = 0 stands for nan),
\* together with what repr writes for it.
PyReal(r) == [py |-> r.py, n |-> r.n, d |-> r.d, repr |-> ReprReal(r)]

PyInt(n) == PyReal([py |-> "int", n |-> n, d |-> 1])

PyFloat(n, d) == PyReal([py |-> "float", n |-> n, d |-> d])

nan == PyFloat(0, 0)

\* Coef.__init__: a unary operator without override that keeps coef.
Coef(coef, arg) == [type |-> "Coef", operands |-> <<arg>>, logic |-> NoLogic, coef |-> coef]

\* Exp.__init__: a unary operator without override that keeps exp.
Exp(exp, arg) == [type |-> "Exp", operands |-> <<arg>>, logic |-> NoLogic, exp |-> exp]

\* Formula.__rmul__ / __mul__, __truediv__ and __pow__ with an int or a float.
Formula_mul(self, other) == Coef(other, self)

Formula_truediv(self, other) == Coef(PyFloat(other.d, other.n), self)

Formula_pow(self, other) == Exp(other, self)

\* The keyword argument logic=... of an operator constructor.
WithLogic(f, lg) == [f EXCEPT !.logic = lg]

IsOperator(f) == f.type \notin {"Prop", "Const"}

RECURSIVE Repr(_)
RECURSIVE ReprJoin(_, _)

\* ", ".join(op.__repr__(d) for op in self.operands), from operand i on.
ReprJoin(ops, i) ==
    IF i > Len(ops) THEN ""
    ELSE Repr(ops[i]) \o (IF i < Len(ops) THEN ", " ELSE "") \o ReprJoin(ops, i + 1)

\* Prop.__repr__, Const.__repr__ (of an int), Coef.__repr__, Exp.__repr__ and
\* Operator.__repr__ on acyclic formulae.
Repr(f) ==
    IF f.type = "Prop" THEN "Prop('" \o f.name \o "')"
    ELSE IF f.type = "Const" THEN "Const(" \o ToString(f.val) \o ")"
    ELSE IF f.type = "Coef"
         THEN "Coef(" \o f.coef.repr \o ", " \o Repr(f.operands[1]) \o ")"
    ELSE IF f.type = "Exp"
         THEN "Exp(" \o f.exp.repr \o ", " \o Repr(f.operands[1]) \o ")"
    ELSE f.type \o "(" \o ReprJoin(f.operands, 1)
         \o (IF f.logic # NoLogic
             THEN (IF Len(f.operands) > 0 THEN ", " ELSE "") \o "logic=" \o f.logic
             ELSE "")
         \o ")"

(***************************************************************************)
(* theory.py: intervals and sentences                                      *)
(***************************************************************************)
Frac(n, d) == [n |-> n, d |-> d]

RealInterval(class, lower, upper) == [class |-> class, lower |-> lower, upper |-> upper]

ClosedInterval(lower, upper) == RealInterval("ClosedInterval", lower, upper)

Point(point) == ClosedInterval(point, point)

AtLeast(lower) == ClosedInterval(lower, Frac(1, 1))

AtMost(upper) == ClosedInterval(Frac(0, 1), upper)

OpenInterval(lower, upper) == RealInterval("OpenInterval", lower, upper)

OpenLowerInterval(lower, upper) == RealInterval("OpenLowerInterval", lower, upper)

GreaterThan(lower) == OpenLowerInterval(lower, Frac(1, 1))

OpenUpperInterval(lower, upper) == RealInterval("OpenUpperInterval", lower, upper)

LessThan(upper) == OpenUpperInterval(Frac(0, 1), upper)

SimpleSentence(formula, intervals) == [formula |-> formula, intervals |-> intervals]

\* Python None as the query of Theory.entails.
None == [none |-> TRUE]

IsNone(q) == "none" \in DOMAIN q

IsFormula(q) == "type" \in DOMAIN q

(***************************************************************************)
(* The MP model: variables and constraints (docplex Model as used here)    *)
(***************************************************************************)
\* A reference to a variable of the model, or a number.
V(id) == [isvar |-> TRUE, x |-> id]

N(num) == [isvar |-> FALSE, x |-> num]

\* Model(cts_by_name=True) followed by continuous_var(lb=0, ub=1, name="gap").
Model == [vars |-> <<[name |-> "gap", kind |-> "gap"]>>, cts |-> <<>>]

get_var_by_name(mm, name) ==
    LET hits == {i \in 1..Len(mm.vars) : mm.vars[i].name = name}
    IN  IF hits = {} THEN 0 ELSE CHOOSE i \in hits : \A j \in hits : i <= j

continuous_var(mm, name) ==
    [mm EXCEPT !.vars = Append(@, [name |-> name, kind |-> "continuous"])]

binary_var(mm, name) ==
    [mm EXCEPT !.vars = Append(@, [name |-> name, kind |-> "binary"])]

RECURSIVE binary_var_list(_, _, _)

binary_var_list(mm, count, name) ==
    IF count = 0 THEN mm
    ELSE binary_var(binary_var_list(mm, count - 1, name),
                    name \o "_" \o ToString(count - 1))

get_constraint_by_name(mm, name) ==
    LET hits == {i \in 1..Len(mm.cts) : mm.cts[i].name = name}
    IN  IF hits = {} THEN 0 ELSE CHOOSE i \in hits : \A j \in hits : i <= j

\* A linear constraint as built by the expression operators of the model.
\*   def: the constraint has the form  out == expression(args)
\*   gs:  1 when gap occurs in the constraint
Ct(kind, def, out, args) ==
    [name |-> "", ind |-> 0, act |-> 1, kind |-> kind, def |-> def,
     out |-> out, args |-> args, bound |-> Frac(0, 1), gs |-> 0]

BoundCt(kind, val, bound, gs) ==
    [Ct(kind, FALSE, val, <<>>) EXCEPT !.bound = bound, !.gs = gs]

add_constraint(mm, ct, ctname) ==
    [mm EXCEPT !.cts = Append(@, [ct EXCEPT !.name = ctname])]

add_indicator(mm, binary, ct, active) ==
    [mm EXCEPT !.cts = Append(@, [ct EXCEPT !.ind = binary, !.act = active])]

\* True of every model.  It is used as the condition of an IF so that a model
\* is evaluated before it is handed on, which keeps the evaluation of a long
\* chain of model updates from nesting.
IsModel(mm) == Len(mm.vars) > 0

(***************************************************************************)
(* op.py: configure and the operators' constraints                         *)
(***************************************************************************)
\* The val slot of a formula once it has been configured into mm: a Const
\* keeps its number, any other formula holds the variable named repr + ".val".
ValOf(f, mm) ==
    IF f.type = "Const" THEN N(f.val)
    ELSE V(get_var_by_name(mm, Repr(f) \o ".val"))

\* Formula.configure: look the variable up by name, create it when absent.
Formula_configure(self, mm) ==
    LET var_name == Repr(self) \o ".val"
    IN  IF get_var_by_name(mm, var_name) = 0
        THEN continuous_var(mm, var_name)
        ELSE mm

\* A variant of Operator._add_constraint without the lookup of the name.
Operator_add_constraint_unguarded(self, mm, ct) ==
    add_constraint(mm, ct, Repr(self) \o ".constraint")

\* Operator._add_constraint: add ct under the name repr(self).name unless a
\* constraint of that name is in the model.
Operator_add_constraint(self, mm, ct) ==
    LET ct_name == Repr(self) \o ".constraint"
    IN  IF get_constraint_by_name(mm, ct_name) = 0
        THEN add_constraint(mm, ct, ct_name)
        ELSE mm

RECURSIVE OperandVals(_, _, _)

\* [op.val for op in self.operands]
OperandVals(ops, i, mm) ==
    IF i > Len(ops) THEN <<>>
    ELSE <<ValOf(ops[i], mm)>> \o OperandVals(ops, i + 1, mm)

\* A variant of And._add_constraints that takes the Lukasiewicz branch always.
And_add_constraints_lukasiewicz(self, val, mm, lg) ==
    Operator_add_constraint(self, mm,
        Ct("eq_luk_and", TRUE, val, OperandVals(self.operands, 1, mm)))

And_add_constraints(self, val, mm, lg) ==
    IF lg = GODEL
    THEN Operator_add_constraint(self, mm,
             Ct("eq_min", TRUE, val, OperandVals(self.operands, 1, mm)))
    ELSE Operator_add_constraint(self, mm,
             Ct("eq_luk_and", TRUE, val, OperandVals(self.operands, 1, mm)))

WeakAnd_add_constraints(self, val, mm, lg) ==
    And_add_constraints(self, val, mm, GODEL)

\* Variants of Or._add_constraints that take one branch always.
Or_add_constraints_godel(self, val, mm, lg) ==
    Operator_add_constraint(self, mm,
        Ct("eq_max", TRUE, val, OperandVals(self.operands, 1, mm)))

Or_add_constraints_lukasiewicz(self, val, mm, lg) ==
    Operator_add_constraint(self, mm,
        Ct("eq_luk_or", TRUE, val, OperandVals(self.operands, 1, mm)))

Or_add_constraints(self, val, mm, lg) ==
    IF lg = GODEL
    THEN Operator_add_constraint(self, mm,
             Ct("eq_max", TRUE, val, OperandVals(self.operands, 1, mm)))
    ELSE Operator_add_constraint(self, mm,
             Ct("eq_luk_or", TRUE, val, OperandVals(self.operands, 1, mm)))

WeakOr_add_constraints(self, val, mm, lg) ==
    Or_add_constraints(self, val, mm, GODEL)

\* A variant of Implies._add_constraints whose GODEL branch asks lhs >= rhs
\* where the code asks lhs >= rhs + gap.
Implies_add_constraints_not_strict(self, val, mm, lg) ==
    LET lhs == ValOf(self.operands[1], mm)
        rhs == ValOf(self.operands[2], mm)
    IN  IF lg = GODEL
        THEN LET var_name == Repr(self) \o ".lhs_le_rhs"
             IN  IF get_var_by_name(mm, var_name) = 0
                 THEN LET m0 == binary_var(mm, var_name)
                          lhs_le_rhs == Len(m0.vars)
                          m1 == add_indicator(m0, lhs_le_rhs, Ct("le", FALSE, lhs, <<lhs, rhs>>), 1)
                          m2 == add_indicator(m1, lhs_le_rhs, Ct("eq", TRUE, val, <<N(1)>>), 1)
                          m3 == add_indicator(m2, lhs_le_rhs, Ct("le", FALSE, lhs, <<rhs, lhs>>), 0)
                      IN  add_indicator(m3, lhs_le_rhs, Ct("eq", TRUE, val, <<rhs>>), 0)
                 ELSE mm
        ELSE IF ~rhs.isvar /\ rhs.x = 0
             THEN Operator_add_constraint(self, mm, Ct("eq_one_minus", TRUE, val, <<lhs>>))
             ELSE Operator_add_constraint(self, mm, Ct("eq_luk_implies", TRUE, val, <<lhs, rhs>>))

\* Implies._add_constraints; val is self.val, which Not sets by hand.
Implies_add_constraints(self, val, mm, lg) ==
    LET lhs == ValOf(self.operands[1], mm)
        rhs == ValOf(self.operands[2], mm)
    IN  IF lg = GODEL
        THEN LET var_name == Repr(self) \o ".lhs_le_rhs"
             IN  IF get_var_by_name(mm, var_name) = 0
                 THEN LET m0 == binary_var(mm, var_name)
                          lhs_le_rhs == Len(m0.vars)
                          m1 == add_indicator(m0, lhs_le_rhs, Ct("le", FALSE, lhs, <<lhs, rhs>>), 1)
                          m2 == add_indicator(m1, lhs_le_rhs, Ct("eq", TRUE, val, <<N(1)>>), 1)
                          m3 == add_indicator(m2, lhs_le_rhs,
                                              [Ct("ge_gap", FALSE, lhs, <<lhs, rhs>>) EXCEPT !.gs = 1], 0)
                      IN  add_indicator(m3, lhs_le_rhs, Ct("eq", TRUE, val, <<rhs>>), 0)
                 ELSE mm
        ELSE IF ~rhs.isvar /\ rhs.x = 0
             THEN Operator_add_constraint(self, mm, Ct("eq_one_minus", TRUE, val, <<lhs>>))
             ELSE Operator_add_constraint(self, mm, Ct("eq_luk_implies", TRUE, val, <<lhs, rhs>>))

Equiv_add_constraints(self, val, mm, lg) ==
    LET lhs == ValOf(self.operands[1], mm)
        rhs == ValOf(self.operands[2], mm)
    IN  IF lg = GODEL
        THEN LET var_name == Repr(self) \o ".lhs_eq_rhs"
             IN  IF get_var_by_name(mm, var_name) = 0
                 THEN LET m0 == binary_var(mm, var_name)
                          lhs_eq_rhs == Len(m0.vars)
                          m1 == add_indicator(m0, lhs_eq_rhs, Ct("eq", FALSE, lhs, <<rhs>>), 1)
                          m2 == add_indicator(m1, lhs_eq_rhs, Ct("eq", TRUE, val, <<N(1)>>), 1)
                          m3 == add_indicator(m2, lhs_eq_rhs,
                                              [Ct("abs_ge_gap", FALSE, lhs, <<lhs, rhs>>) EXCEPT !.gs = 1], 0)
                      IN  add_indicator(m3, lhs_eq_rhs, Ct("eq_min", TRUE, val, <<lhs, rhs>>), 0)
                 ELSE mm
        ELSE Operator_add_constraint(self, mm, Ct("eq_luk_equiv", TRUE, val, <<lhs, rhs>>))

\* A variant of Not._add_constraints that builds its Implies under GODEL always.
Not_add_constraints_godel(self, val, mm, lg) ==
    Implies_add_constraints(WithLogic(Implies(self.operands[1], Const(0)), GODEL), val, mm, GODEL)

\* Not._add_constraints: a temporary Implies(arg, 0, logic=logic) that is
\* given the Not node's variable.
Not_add_constraints(self, val, mm, lg) ==
    LET impl == WithLogic(Implies(self.operands[1], Const(0)), lg)
    IN  Implies_add_constraints(impl, val, mm, lg)

\* A variant of Inv._add_constraints that passes the logic it is given.
Inv_add_constraints_ambient(self, val, mm, lg) ==
    Not_add_constraints(self, val, mm, lg)

Inv_add_constraints(self, val, mm, lg) ==
    Not_add_constraints(self, val, mm, LUKASIEWICZ)

Delta_add_constraints(self, val, mm, lg) ==
    LET arg == ValOf(self.operands[1], mm)
        var_name == Repr(self) \o ".arg_eq_one"
    IN  IF get_var_by_name(mm, var_name) = 0
        THEN LET m0 == binary_var(mm, var_name)
                 arg_eq_one == Len(m0.vars)
                 m1 == add_indicator(m0, arg_eq_one, Ct("eq", FALSE, arg, <<N(1)>>), 1)
                 m2 == add_indicator(m1, arg_eq_one, Ct("eq", TRUE, val, <<N(1)>>), 1)
                 m3 == add_indicator(m2, arg_eq_one,
                                     [Ct("le_one_minus_gap", FALSE, arg, <<arg>>) EXCEPT !.gs = 1], 0)
             IN  add_indicator(m3, arg_eq_one, Ct("eq", TRUE, val, <<N(0)>>), 0)
        ELSE mm

Nabla_add_constraints(self, val, mm, lg) ==
    LET arg == ValOf(self.operands[1], mm)
        var_name == Repr(self) \o ".arg_eq_zero"
    IN  IF get_var_by_name(mm, var_name) = 0
        THEN LET m0 == binary_var(mm, var_name)
                 arg_eq_zero == Len(m0.vars)
                 m1 == add_indicator(m0, arg_eq_zero, Ct("eq", FALSE, arg, <<N(0)>>), 1)
                 m2 == add_indicator(m1, arg_eq_zero, Ct("eq", TRUE, val, <<N(0)>>), 1)
                 m3 == add_indicator(m2, arg_eq_zero,
                                     [Ct("ge_gap", FALSE, arg, <<arg, N(0)>>) EXCEPT !.gs = 1], 0)
             IN  add_indicator(m3, arg_eq_zero, Ct("eq", TRUE, val, <<N(1)>>), 0)
        ELSE mm

\* Coef._add_constraints: self.val == m.min(1, self.coef * self.arg.val)
Coef_add_constraints(self, val, mm, lg) ==
    Operator_add_constraint(self, mm,
        [Ct("eq_coef", TRUE, val, OperandVals(self.operands, 1, mm))
            EXCEPT !.bound = Frac(self.coef.n, self.coef.d)])

\* Exp._add_constraints: self.val == m.max(0, 1 - self.exp * (1 - self.arg.val))
Exp_add_constraints(self, val, mm, lg) ==
    Operator_add_constraint(self, mm,
        [Ct("eq_exp", TRUE, val, OperandVals(self.operands, 1, mm))
            EXCEPT !.bound = Frac(self.exp.n, self.exp.d)])

\* The dispatch of self._add_constraints over the operator classes.
add_constraints(self, mm, lg) ==
    LET val == ValOf(self, mm)
    IN  CASE self.type = "And" -> And_add_constraints(self, val, mm, lg)
          [] self.type = "WeakAnd" -> WeakAnd_add_constraints(self, val, mm, lg)
          [] self.type = "Or" -> Or_add_constraints(self, val, mm, lg)
          [] self.type = "WeakOr" -> WeakOr_add_constraints(self, val, mm, lg)
          [] self.type = "Implies" -> Implies_add_constraints(self, val, mm, lg)
          [] self.type = "Equiv" -> Equiv_add_constraints(self, val, mm, lg)
          [] self.type = "Not" -> Not_add_constraints(self, val, mm, lg)
          [] self.type = "Inv" -> Inv_add_constraints(self, val, mm, lg)
          [] self.type = "Delta" -> Delta_add_constraints(self, val, mm, lg)
          [] self.type = "Nabla" -> Nabla_add_constraints(self, val, mm, lg)
          [] self.type = "Coef" -> Coef_add_constraints(self, val, mm, lg)
          [] self.type = "Exp" -> Exp_add_constraints(self, val, mm, lg)

RECURSIVE configure(_, _, _)
RECURSIVE configure_operands(_, _, _, _)

\* for op in self.operands: op.configure(m, gap, logic)
configure_operands(ops, i, mm, lg) ==
    LET rest(m1) == IF IsModel(m1) THEN configure_operands(ops, i + 1, m1, lg) ELSE m1
    IN  IF i > Len(ops) THEN mm ELSE rest(configure(ops[i], mm, lg))

\* Formula.configure / Const.configure / Operator.configure.  The operands
\* are configured with the inherited logic; the node's own override is
\* applied to its own constraints only.
configure(self, mm, lg) ==
    LET own == IF self.logic # NoLogic THEN self.logic ELSE lg
        constrain(m2) == IF IsModel(m2) THEN add_constraints(self, m2, own) ELSE m2
        operands(m1) == IF IsModel(m1) THEN constrain(configure_operands(self.operands, 1, m1, lg))
                        ELSE m1
    IN  IF self.type = "Const" THEN mm
        ELSE IF self.type = "Prop" THEN Formula_configure(self, mm)
        ELSE operands(Formula_configure(self, mm))

(***************************************************************************)
(* theory.py: the encodings of intervals and sentences                     *)
(***************************************************************************)
\* A variant of RealInterval.configure that treats every bound as closed.
Interval_configure_closed(self, mm, val, active) ==
    add_indicator(add_indicator(mm, active, BoundCt("ge_bound", val, self.lower, 0), 1),
                  active, BoundCt("le_bound", val, self.upper, 0), 1)

\* RealInterval.configure of the four interval classes.
Interval_configure(self, mm, val, active) ==
    LET lo == IF self.class \in {"ClosedInterval", "OpenUpperInterval"} THEN 0 ELSE 1
        up == IF self.class \in {"ClosedInterval", "OpenLowerInterval"} THEN 0 ELSE 1
        m1 == add_indicator(mm, active, BoundCt("ge_bound", val, self.lower, lo), 1)
    IN  add_indicator(m1, active, BoundCt("le_bound", val, self.upper, up), 1)

\* A variant of RealInterval.compliment that leaves gap out of both sides.
Interval_compliment_not_strict(self, mm, val, active) ==
    add_indicator(add_indicator(mm, active, BoundCt("le_bound", val, self.lower, 0), 1),
                  active, BoundCt("ge_bound", val, self.upper, 0), 0)

\* RealInterval.compliment of the four interval classes.
Interval_compliment(self, mm, val, active) ==
    LET lo == IF self.class \in {"ClosedInterval", "OpenUpperInterval"} THEN 1 ELSE 0
        up == IF self.class \in {"ClosedInterval", "OpenLowerInterval"} THEN 1 ELSE 0
        m1 == add_indicator(mm, active, BoundCt("le_bound", val, self.lower, lo), 1)
    IN  add_indicator(m1, active, BoundCt("ge_bound", val, self.upper, up), 0)

RECURSIVE Intervals_configure(_, _, _, _, _)

\* for i in range(len(self.intervals)): self.intervals[i].configure(...)
Intervals_configure(ivs, i, mm, val, first) ==
    LET rest(m1) == IF IsModel(m1) THEN Intervals_configure(ivs, i + 1, m1, val, first) ELSE m1
    IN  IF i > Len(ivs) THEN mm
        ELSE rest(Interval_configure(ivs[i], mm, val, first + i - 1))

RECURSIVE Intervals_compliment(_, _, _, _, _)

Intervals_compliment(ivs, i, mm, val, first) ==
    LET rest(m1) == IF IsModel(m1) THEN Intervals_compliment(ivs, i + 1, m1, val, first) ELSE m1
    IN  IF i > Len(ivs) THEN mm
        ELSE rest(Interval_compliment(ivs[i], mm, val, first + i - 1))

\* A variant of SimpleSentence.configure that configures the formula only.
SimpleSentence_configure_formula_only(self, mm, lg) == configure(self.formula, mm, lg)

\* SimpleSentence.configure: the formula, one binary per interval of which
\* exactly one is 1, and each interval under its binary.
SimpleSentence_configure(self, mm, lg) ==
    LET k == Len(self.intervals)
        intervals(m1) ==
            LET m2 == binary_var_list(m1, k, Repr(self.formula) \o ".active_interval")
                first == Len(m1.vars) + 1
                active_interval == [i \in 1..k |-> V(first + i - 1)]
                m3 == add_constraint(m2, Ct("sum_eq_one", FALSE, N(1), active_interval), "")
                val == ValOf(self.formula, m1)
            IN  IF IsModel(m1) /\ IsModel(m3) /\ val = val
                THEN Intervals_configure(self.intervals, 1, m3, val, first)
                ELSE m3
    IN  intervals(configure(self.formula, mm, lg))

\* SimpleSentence.compliment: the formula, one binary per interval, and the
\* complement of each interval under its binary.
SimpleSentence_compliment(self, mm, lg) ==
    LET k == Len(self.intervals)
        intervals(m1) ==
            LET m2 == binary_var_list(m1, k, Repr(self.formula) \o ".active_interval")
                first == Len(m1.vars) + 1
                val == ValOf(self.formula, m1)
            IN  IF IsModel(m1) /\ IsModel(m2) /\ val = val
                THEN Intervals_compliment(self.intervals, 1, m2, val, first)
                ELSE m2
    IN  intervals(configure(self.formula, mm, lg))

(***************************************************************************)
(* The solver: m.maximize(gap); m.solve(); gap.solution_value > 1e-8       *)
(***************************************************************************)
MinOf(S) == CHOOSE x \in S : \A y \in S : x <= y

MaxOf(S) == CHOOSE x \in S : \A y \in S : x >= y

AbsVal(x) == IF x < 0 THEN -x ELSE x

RECURSIVE SumSeq(_, _)

SumSeq(sq, i) == IF i > Len(sq) THEN 0 ELSE sq[i] + SumSeq(sq, i + 1)

\* gap.solution_value > 1e-8 for a gap that may be as large as num/den.
AboveTol(num, den) == num > 0 /\ num > den \div EpsInv

\* The ids of the variables among a set of references.
VarsIn(refs) == {r.x : r \in {q \in refs : q.isvar}}

CtRefs(c) == {c.out} \cup {c.args[i] : i \in 1..Len(c.args)}

CtVars(c) == VarsIn(CtRefs(c)) \cup (IF c.ind = 0 THEN {} ELSE {c.ind})

\* The variables a variable is computed from: the arguments (and the
\* indicator) of the constraints that define it; for a binary, the variables
\* of the conditions it switches.
Deps(mm, x) ==
    UNION {IF c.def /\ c.out = V(x)
           THEN CtVars(c) \ {x}
           ELSE IF ~c.def /\ c.ind = x THEN CtVars(c) \ {x} ELSE {}
           : c \in {mm.cts[i] : i \in 1..Len(mm.cts)}}

RECURSIVE SortedSeq(_)

SortedSeq(S) == IF S = {} THEN <<>> ELSE <<MinOf(S)>> \o SortedSeq(S \ {MinOf(S)})

RECURSIVE Layers(_, _, _)

Layers(deps, placed, remaining) ==
    IF remaining = {} THEN <<>>
    ELSE LET ready == {x \in remaining : deps[x] \subseteq placed}
         IN  IF ready = {} THEN SortedSeq(remaining)
             ELSE SortedSeq(ready) \o Layers(deps, placed \cup ready, remaining \ ready)

\* An order of the variables other than gap in which every variable comes
\* after the variables it is computed from.
SolveOrder(mm) ==
    LET ids == 2..Len(mm.vars)
        deps == [x \in ids |-> Deps(mm, x)]
    IN  Layers(deps, {}, ids)

\* The value of a reference in grid units: a number c stands for c * Den.
Eval(r, A, pos) == IF r.isvar THEN A[pos[r.x]] ELSE r.x * Den

\* Whether the constraint c admits assignment A together with some value of
\* gap above the tolerance.
Holds(c, A, pos) ==
    LET out == Eval(c.out, A, pos)
        a == [i \in 1..Len(c.args) |-> Eval(c.args[i], A, pos)]
    IN  CASE c.kind = "eq" -> out = a[1]
          [] c.kind = "le" -> a[1] <= a[2]
          [] c.kind = "ge_gap" -> AboveTol(a[1] - a[2], Den)
          [] c.kind = "abs_ge_gap" -> AboveTol(AbsVal(a[1] - a[2]), Den)
          [] c.kind = "le_one_minus_gap" -> AboveTol(Den - a[1], Den)
          [] c.kind = "eq_min" -> out = MinOf({a[i] : i \in 1..Len(a)})
          [] c.kind = "eq_max" -> out = MaxOf({a[i] : i \in 1..Len(a)})
          [] c.kind = "eq_luk_and" ->
                out = MaxOf({0, Den - SumSeq([i \in 1..Len(a) |-> Den - a[i]], 1)})
          [] c.kind = "eq_luk_or" -> out = MinOf({Den, SumSeq(a, 1)})
          [] c.kind = "eq_one_minus" -> out = Den - a[1]
          [] c.kind = "eq_luk_implies" -> out = MinOf({Den, Den - a[1] + a[2]})
          [] c.kind = "eq_luk_equiv" -> out = Den - AbsVal(a[1] - a[2])
          [] c.kind = "eq_coef" -> out * c.bound.d = MinOf({Den * c.bound.d, c.bound.n * a[1]})
          [] c.kind = "eq_exp" ->
                out * c.bound.d = MaxOf({0, Den * c.bound.d - c.bound.n * (Den - a[1])})
          [] c.kind = "ge_bound" ->
                IF c.gs = 0 THEN out * c.bound.d >= c.bound.n * Den
                ELSE AboveTol(out * c.bound.d - c.bound.n * Den, c.bound.d * Den)
          [] c.kind = "le_bound" ->
                IF c.gs = 0 THEN out * c.bound.d <= c.bound.n * Den
                ELSE AboveTol(c.bound.n * Den - out * c.bound.d, c.bound.d * Den)
          [] c.kind = "sum_eq_one" ->
                SumSeq([i \in 1..Len(c.args) |-> A[pos[c.args[i].x]]], 1) = 1

\* An indicator constraint binds only when its binary has the active value.
Admits(c, A, pos) ==
    IF c.ind # 0 /\ A[pos[c.ind]] # c.act THEN TRUE ELSE Holds(c, A, pos)

RECURSIVE Search(_, _, _)

\* Extend the assignment A, given in the order P.order, to all variables.
Search(P, i, A) ==
    IF i > Len(P.order) THEN TRUE
    ELSE \E v \in (IF P.kinds[i] = "binary" THEN {0, 1} ELSE 0..Den) :
            LET A2 == Append(A, v)
            IN  /\ \A j \in P.ctAt[i] : Admits(P.cts[j], A2, P.pos)
                /\ Search(P, i + 1, A2)

\* m.solve() and gap.solution_value > 1e-8: some assignment of the variables
\* satisfies every constraint with gap above the tolerance.  (gap is the
\* objective and every constraint bounds it from above, so the maximum is
\* above the tolerance iff some feasible point is.)
SolveAboveTol(mm) ==
    LET order == SolveOrder(mm)
        pos == [x \in 2..Len(mm.vars) |-> CHOOSE p \in 1..Len(order) : order[p] = x]
        last == [j \in 1..Len(mm.cts) |->
                    MaxOf({0} \cup {pos[x] : x \in CtVars(mm.cts[j])})]
        P == [order |-> order,
              kinds |-> [p \in 1..Len(order) |-> mm.vars[order[p]].kind],
              pos |-> pos,
              cts |-> mm.cts,
              ctAt |-> [p \in 1..Len(order) |-> {j \in 1..Len(mm.cts) : last[j] = p}]]
    IN  /\ \A j \in {k \in 1..Len(mm.cts) : last[k] = 0} : Holds(mm.cts[j], <<>>, pos)
        /\ Search(P, 1, <<>>)

(***************************************************************************)
(* theory.py: Theory                                                       *)
(***************************************************************************)
One == Frac(1, 1)

Zero == Frac(0, 1)

\* Theory.__init__: a formula is coerced into a sentence with truth value 1.
Theory(args) ==
    [i \in 1..Len(args) |->
        IF IsFormula(args[i]) THEN SimpleSentence(args[i], <<Point(One)>>) ELSE args[i]]

\* A variant of the loop over self.sentences that configures none of them.
Sentences_configure_none(ss, i, mm, lg) == mm

RECURSIVE Sentences_configure(_, _, _, _)

\* for s in self.sentences: s.configure(self.m, self.gap, logic)
Sentences_configure(ss, i, mm, lg) ==
    LET rest(m1) == IF IsModel(m1) THEN Sentences_configure(ss, i + 1, m1, lg) ELSE m1
    IN  IF i > Len(ss) THEN mm ELSE rest(SimpleSentence_configure(ss[i], mm, lg))

\* Theory.entails up to the call of the solver: the model self.m.
Theory_model(sentences, q, lg) ==
    LET qs == IF IsFormula(q) THEN SimpleSentence(q, <<Point(One)>>) ELSE q
        compliment(m1) == IF IsNone(qs) \/ ~IsModel(m1) THEN m1
                          ELSE SimpleSentence_compliment(qs, m1, lg)
    IN  compliment(Sentences_configure(sentences, 1, Model, lg))

\* Theory.entails: res = not (self.m.solve() and gap.solution_value > 1e-8).
Theory_entails(sentences, q, lg) ==
    LET solve(mm) == IsModel(mm) /\ ~SolveAboveTol(mm)
    IN  solve(Theory_model(sentences, q, lg))

\* Theory.satisfiable
Theory_satisfiable(sentences, lg) == ~Theory_entails(sentences, None, lg)

(***************************************************************************)
(* hajek.py: theorems of basic fuzzy logic and of its two extensions       *)
(***************************************************************************)
phi == Prop("phi")

psi == Prop("psi")

chi == Prop("chi")

omega == Prop("omega")

axioms ==
    << Implies(Implies(phi, psi), Implies(Implies(psi, chi), Implies(phi, chi))),
       Implies(And(<<phi, psi>>), phi),
       Implies(And(<<phi, psi>>), And(<<psi, phi>>)),
       Implies(And(<<phi, Implies(phi, psi)>>), And(<<psi, Implies(psi, phi)>>)),
       Implies(Implies(phi, Implies(psi, chi)), Implies(And(<<phi, psi>>), chi)),
       Implies(Implies(And(<<phi, psi>>), chi), Implies(phi, Implies(psi, chi))),
       Implies(Implies(Implies(phi, psi), chi), Implies(Implies(Implies(psi, phi), chi), chi)),
       Implies(Const(0), phi) >>

implication ==
    << Implies(phi, Implies(psi, phi)),
       Implies(Implies(phi, Implies(psi, chi)), Implies(psi, Implies(phi, chi))),
       Implies(phi, phi) >>

conjunction ==
    << Implies(And(<<phi, Implies(phi, psi)>>), psi),
       Implies(phi, Implies(psi, And(<<phi, psi>>))),
       Implies(Implies(phi, psi), Implies(And(<<phi, chi>>), And(<<psi, chi>>))),
       Implies(And(<<Implies(phi, psi), Implies(chi, omega)>>), Implies(And(<<phi, chi>>), And(<<psi, omega>>))),
       Implies(And(<<And(<<phi, psi>>), chi>>), And(<<phi, And(<<psi, chi>>)>>)),
       Implies(And(<<phi, And(<<psi, chi>>)>>), And(<<And(<<phi, psi>>), chi>>)) >>

weak_conjunction ==
    << Implies(WeakAnd(<<phi, psi>>), phi),
       Implies(WeakAnd(<<phi, psi>>), psi),
       Implies(And(<<phi, psi>>), WeakAnd(<<phi, psi>>)),
       Implies(Implies(phi, psi), Implies(phi, WeakAnd(<<phi, psi>>))),
       Implies(WeakAnd(<<phi, psi>>), WeakAnd(<<psi, phi>>)),
       Implies(WeakAnd(<<Implies(phi, psi), Implies(phi, chi)>>), Implies(phi, WeakAnd(<<psi, chi>>))),
       Implies(And(<<Implies(phi, psi), Implies(phi, chi)>>), Implies(phi, WeakAnd(<<psi, chi>>))) >>

weak_disjunction ==
    << Implies(phi, WeakOr(<<phi, psi>>)),
       Implies(psi, WeakOr(<<phi, psi>>)),
       Implies(WeakOr(<<phi, psi>>), WeakOr(<<psi, phi>>)),
       Implies(Implies(phi, psi), Implies(WeakOr(<<phi, psi>>), psi)),
       WeakOr(<<Implies(phi, psi), Implies(psi, phi)>>),
       Implies(WeakAnd(<<Implies(phi, chi), Implies(psi, chi)>>), Implies(WeakOr(<<phi, psi>>), chi)),
       Implies(And(<<Implies(phi, chi), Implies(psi, chi)>>), Implies(WeakOr(<<phi, psi>>), chi)) >>

negation ==
    << Implies(phi, Implies(Not(phi), psi)),
       Implies(phi, Not(Not(phi))),
       Implies(And(<<phi, Not(phi)>>), Const(0)),
       Implies(Implies(phi, And(<<psi, Not(psi)>>)), Not(phi)),
       Implies(Implies(phi, psi), Implies(Not(psi), Not(phi))),
       Implies(Implies(phi, Not(psi)), Implies(psi, Not(phi))),
       Implies(phi, And(<<Const(1), phi>>)),
       Implies(Implies(Const(1), phi), phi) >>

associativity ==
    << Implies(WeakAnd(<<phi, WeakAnd(<<psi, chi>>)>>), WeakAnd(<<WeakAnd(<<phi, psi>>), chi>>)),
       Implies(WeakAnd(<<WeakAnd(<<phi, psi>>), chi>>), WeakAnd(<<phi, WeakAnd(<<psi, chi>>)>>)),
       Implies(WeakOr(<<phi, WeakOr(<<psi, chi>>)>>), WeakOr(<<WeakOr(<<phi, psi>>), chi>>)),
       Implies(WeakOr(<<WeakOr(<<phi, psi>>), chi>>), WeakOr(<<phi, WeakOr(<<psi, chi>>)>>)),
       Implies(phi, WeakAnd(<<phi, WeakOr(<<phi, psi>>)>>)),
       Implies(WeakOr(<<phi, WeakAnd(<<phi, psi>>)>>), phi) >>

equivalence ==
    << Equiv(phi, phi),
       Implies(Equiv(phi, psi), Equiv(psi, phi)),
       Implies(And(<<Equiv(phi, psi), Equiv(psi, chi)>>), Equiv(phi, chi)),
       Implies(Equiv(phi, psi), Implies(phi, psi)),
       Implies(Equiv(phi, psi), Implies(psi, phi)),
       Implies(Equiv(phi, psi), Equiv(And(<<phi, chi>>), And(<<psi, chi>>))),
       Implies(Equiv(phi, psi), Equiv(Implies(phi, chi), Implies(psi, chi))),
       Implies(Equiv(phi, psi), Equiv(Implies(chi, phi), Implies(chi, psi))),
       Implies(Equiv(phi, psi), WeakAnd(<<Implies(phi, psi), Implies(psi, phi)>>)) >>

distributivity ==
    << Equiv(And(<<phi, WeakOr(<<psi, chi>>)>>), WeakOr(<<And(<<phi, psi>>), And(<<phi, chi>>)>>)),
       Equiv(And(<<phi, WeakAnd(<<psi, chi>>)>>), WeakAnd(<<And(<<phi, psi>>), And(<<phi, chi>>)>>)),
       Equiv(WeakAnd(<<phi, WeakOr(<<psi, chi>>)>>), WeakOr(<<WeakAnd(<<phi, psi>>), WeakAnd(<<phi, chi>>)>>)),
       Equiv(WeakOr(<<phi, WeakAnd(<<psi, chi>>)>>), WeakAnd(<<WeakOr(<<phi, psi>>), WeakOr(<<phi, chi>>)>>)),
       Implies(And(<<WeakOr(<<phi, psi>>), WeakOr(<<phi, psi>>)>>), WeakOr(<<And(<<phi, phi>>), And(<<psi, psi>>)>>)),
       Implies(And(<<WeakAnd(<<phi, psi>>), WeakAnd(<<phi, psi>>)>>), WeakAnd(<<And(<<phi, phi>>), And(<<psi, psi>>)>>)),
       Equiv(WeakAnd(<<Not(phi), Not(psi)>>), Not(WeakOr(<<phi, psi>>))),
       Equiv(WeakOr(<<Not(phi), Not(psi)>>), Not(WeakAnd(<<phi, psi>>))) >>

delta_operator ==
    << Equiv(Delta(phi), Delta(And(<<phi, phi>>))),
       Equiv(Delta(phi), And(<<Delta(phi), Delta(phi)>>)),
       Equiv(Delta(And(<<phi, psi>>)), And(<<Delta(phi), Delta(psi)>>)) >>

lukasiewicz ==
    << Equiv(Not(Not(phi)), phi),
       Equiv(Implies(phi, psi), Implies(Not(psi), Not(phi))),
       Equiv(Implies(phi, psi), Not(And(<<phi, Not(psi)>>))),
       Implies(Implies(Implies(phi, psi), psi), Implies(Implies(psi, phi), phi)),
       Equiv(Implies(Implies(phi, psi), psi), WeakOr(<<phi, psi>>)),
       Equiv(Not(WeakAnd(<<Not(phi), Not(psi)>>)), WeakOr(<<phi, psi>>)),
       Equiv(Not(WeakOr(<<Not(phi), Not(psi)>>)), WeakAnd(<<phi, psi>>)),
       Equiv(Not(And(<<Not(phi), Not(psi)>>)), Or(<<phi, psi>>)),
       Equiv(Not(Or(<<Not(phi), Not(psi)>>)), And(<<phi, psi>>)),
       Equiv(WeakOr(<<phi, psi>>), Or(<<And(<<phi, Not(psi)>>), psi>>)),
       Or(<<phi, Not(phi)>>),
       Equiv(Or(<<And(<<phi, Not(psi)>>), psi>>), Or(<<phi, And(<<psi, Not(phi)>>)>>)) >>

godel ==
    << Implies(phi, And(<<phi, phi>>)),
       Equiv(And(<<phi, psi>>), WeakAnd(<<phi, psi>>)),
       Equiv(And(<<phi, psi>>), And(<<phi, Implies(phi, psi)>>)),
       Implies(Implies(phi, Implies(psi, chi)), Implies(Implies(phi, psi), Implies(phi, chi))),
       Implies(Implies(phi, Not(phi)), Not(phi)) >>

(***************************************************************************)
(* The calls of the library: every action below makes them through these   *)
(***************************************************************************)
\* Theory.entails as a step: the theory keeps the model it built in self.m,
\* and the caller receives res.
entails(T, q, lg) ==
    /\ theory' = T
    /\ query' = q
    /\ logic' = lg
    /\ m' = Theory_model(T, q, lg)
    /\ res' = ~SolveAboveTol(m')

\* A variant of Theory.satisfiable that returns entails(None, logic) as it is.
satisfiable_not_negated(T, lg) ==
    /\ theory' = T
    /\ query' = None
    /\ logic' = lg
    /\ m' = Theory_model(T, None, lg)
    /\ res' = ~SolveAboveTol(m')

\* Theory.satisfiable as a step: return not self.entails(None, logic).
satisfiable(T, lg) ==
    /\ theory' = T
    /\ query' = None
    /\ logic' = lg
    /\ m' = Theory_model(T, None, lg)
    /\ res' = ~(~SolveAboveTol(m'))

(***************************************************************************)
(* test.py: HajekTestCase and BooleanTestCase                              *)
(***************************************************************************)
\* "for logic in Logic" visits the members in the order of their definition.
Logic_members == <<GODEL, LUKASIEWICZ>>

\* One clock(self.hajek_test..., formulae, logics=...) of a test method.
Run(fn, formulae, logics) == [fn |-> fn, formulae |-> formulae, logics |-> logics]

\* The test methods of HajekTestCase: the runs each of them makes, in order.
HajekTestCase ==
    [test_hajek_axioms |-> <<Run("hajek_test", axioms, Logic_members)>>,
     test_hajek_implication |-> <<Run("hajek_test", implication, Logic_members)>>,
     test_hajek_conjunction |-> <<Run("hajek_test", conjunction, Logic_members)>>,
     test_hajek_weak_conjunction |-> <<Run("hajek_test", weak_conjunction, Logic_members)>>,
     test_hajek_weak_disjunction |-> <<Run("hajek_test", weak_disjunction, Logic_members)>>,
     test_hajek_negation |-> <<Run("hajek_test", negation, Logic_members)>>,
     test_hajek_associativity |-> <<Run("hajek_test", associativity, Logic_members)>>,
     test_hajek_equivalence |-> <<Run("hajek_test", equivalence, Logic_members)>>,
     test_hajek_distributivity |-> <<Run("hajek_test", distributivity, Logic_members)>>,
     test_hajek_delta_operator |-> <<Run("hajek_test", delta_operator, Logic_members)>>,
     test_hajek_lukasiewicz |-> <<Run("hajek_test", lukasiewicz, <<LUKASIEWICZ>>),
                                  Run("hajek_test_false", lukasiewicz, <<GODEL>>)>>,
     test_hajek_godel |-> <<Run("hajek_test", godel, <<GODEL>>),
                            Run("hajek_test_false", godel, <<LUKASIEWICZ>>)>>]

\* The test methods of BooleanTestCase and the logic each passes on.
BooleanTestCase ==
    [test_boolean_godel |-> GODEL, test_boolean_lukasiewicz |-> LUKASIEWICZ]

\* The position of a test method: the run, the logic and the formula of its
\* next call, whether every assertion so far held, whether it has ended.
Start(test) == [test |-> test, run |-> 1, lg |-> 1, idx |-> 1, ok |-> TRUE, done |-> FALSE]

\* The loops of hajek_test and hajek_test_false: the next formula, then the
\* next logic, then the method's next run; a failed subTest does not stop them.
NextCall(p, passed) ==
    LET runs == HajekTestCase[p.test]
        r == runs[p.run]
        ok == p.ok /\ passed
    IN  IF p.idx < Len(r.formulae) THEN [p EXCEPT !.idx = @ + 1, !.ok = ok]
        ELSE IF p.lg < Len(r.logics) THEN [p EXCEPT !.lg = @ + 1, !.idx = 1, !.ok = ok]
        ELSE IF p.run < Len(runs) THEN [p EXCEPT !.run = @ + 1, !.lg = 1, !.idx = 1, !.ok = ok]
        ELSE [p EXCEPT !.ok = ok, !.done = TRUE]

\* self.assertTrue(empty_theory.entails(formula, logic=logic))
hajek_test ==
    /\ pc.test \in DOMAIN HajekTestCase
    /\ ~pc.done
    /\ LET r == HajekTestCase[pc.test][pc.run]
       IN  /\ r.fn = "hajek_test"
           /\ entails(Theory(<<>>), r.formulae[pc.idx], r.logics[pc.lg])
           /\ pc' = NextCall(pc, res')

\* self.assertFalse(empty_theory.entails(formula, logic=logic))
hajek_test_false ==
    /\ pc.test \in DOMAIN HajekTestCase
    /\ ~pc.done
    /\ LET r == HajekTestCase[pc.test][pc.run]
       IN  /\ r.fn = "hajek_test_false"
           /\ entails(Theory(<<>>), r.formulae[pc.idx], r.logics[pc.lg])
           /\ pc' = NextCall(pc, ~res')

\* The formula of boolean_test.
formula == Implies(Implies(phi, psi), Implies(Implies(Not(phi), psi), psi))

\* Theory(SimpleSentence(phi, [0, 1]), SimpleSentence(psi, [0, 1]))
boolean_theory ==
    Theory(<<SimpleSentence(phi, <<Point(Zero), Point(One)>>),
             SimpleSentence(psi, <<Point(Zero), Point(One)>>)>>)

\* BooleanTestCase.boolean_test: assertFalse on the empty theory, then
\* assertTrue on the Boolean theory; a failed assertion ends the method.
boolean_test ==
    /\ pc.test \in DOMAIN BooleanTestCase
    /\ ~pc.done
    /\ \/ /\ pc.idx = 1
          /\ entails(Theory(<<>>), formula, BooleanTestCase[pc.test])
          /\ pc' = [pc EXCEPT !.idx = 2, !.ok = ~res', !.done = res']
       \/ /\ pc.idx = 2
          /\ entails(boolean_theory, formula, BooleanTestCase[pc.test])
          /\ pc' = [pc EXCEPT !.ok = res', !.done = TRUE]

\* unittest runs each test method on a fresh test case.
TestInit ==
    /\ pc \in {Start(t) : t \in DOMAIN HajekTestCase \cup DOMAIN BooleanTestCase}
    /\ theory = <<>>
    /\ query = None
    /\ logic = LUKASIEWICZ
    /\ m = Model
    /\ res = FALSE

TestNext == hajek_test \/ hajek_test_false \/ boolean_test

TestSpec == TestInit /\ [][TestNext]_vars

(***************************************************************************)
(* test.py: SatTestCase                                                    *)
(***************************************************************************)
\* test_sat runs sat_test for k = 3, 4, 5, 6; the model stops at MaxK.
MaxK == 4

\* x = [Prop("x_%d" % k) for k in range(k)]
sat_test_x(k) == [j \in 1..k |-> Prop("x_" \o ToString(j - 1))]

\* s = [Or(*c) for c in itertools.product(*([a, Inv(a)] for a in x))]: the
\* product varies its last position fastest.
sat_test_s(k) ==
    [c \in 1..(2 ^ k) |->
        Or([j \in 1..k |-> IF ((c - 1) \div (2 ^ (k - j))) % 2 = 0
                           THEN sat_test_x(k)[j]
                           ELSE Inv(sat_test_x(k)[j])])]

\* exclusions = [SimpleSentence(a, [LessThan(1/k), GreaterThan((k-1)/k)]) for a in x]
sat_test_exclusions(k) ==
    [j \in 1..k |->
        SimpleSentence(sat_test_x(k)[j], <<LessThan(Frac(1, k)), GreaterThan(Frac(k - 1, k))>>)]

\* s[:i] + s[i+1:] for an index i that counts from 0
Without(sq, i) == SubSeq(sq, 1, i) \o SubSeq(sq, i + 2, Len(sq))

\* The position of sat_test: its argument k, the statement it is at, the
\* value of its local i (-1 while unbound), whether every assertion so far
\* held, whether it has ended.  A failed assertion is re-raised and ends it.
SatStart(k) == [k |-> k, step |-> "full_godel", i |-> -1, ok |-> TRUE, done |-> FALSE]

SatStep(p, passed, step) ==
    IF passed THEN [p EXCEPT !.step = step] ELSE [p EXCEPT !.ok = FALSE, !.done = TRUE]

\* self.assertFalse(clock(full_theory.satisfiable, logic=Logic.GODEL))
sat_test_full_godel ==
    /\ ~pc.done
    /\ pc.step = "full_godel"
    /\ satisfiable(Theory(sat_test_s(pc.k)), GODEL)
    /\ pc' = SatStep(pc, ~res', "partial")

\* i = random.randrange(len(s)); partial_theory = Theory(*(s[:i] + s[i+1:]))
sat_test_partial ==
    /\ ~pc.done
    /\ pc.step = "partial"
    /\ \E i \in 0..(2 ^ pc.k - 1) :
          /\ theory' = Theory(Without(sat_test_s(pc.k), i))
          /\ pc' = [pc EXCEPT !.i = i, !.step = "partial_godel"]
    /\ UNCHANGED <<query, logic, m, res>>

\* self.assertTrue(clock(partial_theory.satisfiable, logic=Logic.GODEL))
sat_test_partial_godel ==
    /\ ~pc.done
    /\ pc.step = "partial_godel"
    /\ satisfiable(theory, GODEL)
    /\ pc' = SatStep(pc, res', "full_lukasiewicz")

\* self.assertTrue(clock(full_theory.satisfiable, logic=Logic.LUKASIEWICZ))
sat_test_full_lukasiewicz ==
    /\ ~pc.done
    /\ pc.step = "full_lukasiewicz"
    /\ satisfiable(Theory(sat_test_s(pc.k)), LUKASIEWICZ)
    /\ pc' = SatStep(pc, res', "excluded")

\* excluded_theory = Theory(*(s + exclusions));
\* self.assertFalse(clock(excluded_theory.satisfiable, logic=Logic.LUKASIEWICZ))
sat_test_excluded ==
    /\ ~pc.done
    /\ pc.step = "excluded"
    /\ satisfiable(Theory(sat_test_s(pc.k) \o sat_test_exclusions(pc.k)), LUKASIEWICZ)
    /\ pc' = SatStep(pc, ~res', "partial_excluded")

\* i = random.randrange(len(s));
\* partial_excluded_theory = Theory(*(s[:i] + s[i+1:] + exclusions))
sat_test_partial_excluded ==
    /\ ~pc.done
    /\ pc.step = "partial_excluded"
    /\ \E i \in 0..(2 ^ pc.k - 1) :
          /\ theory' = Theory(Without(sat_test_s(pc.k), i) \o sat_test_exclusions(pc.k))
          /\ pc' = [pc EXCEPT !.i = i, !.step = "partial_excluded_lukasiewicz"]
    /\ UNCHANGED <<query, logic, m, res>>

\* self.assertTrue(clock(partial_excluded_theory.satisfiable, logic=Logic.LUKASIEWICZ))
sat_test_partial_excluded_lukasiewicz ==
    /\ ~pc.done
    /\ pc.step = "partial_excluded_lukasiewicz"
    /\ satisfiable(theory, LUKASIEWICZ)
    /\ pc' = [SatStep(pc, res', "end") EXCEPT !.done = TRUE]

\* test_sat: for k in range(3, 7), each k in its own subTest; the locals of
\* the call that ended are gone.
test_sat ==
    /\ pc.done
    /\ pc.k < MaxK
    /\ pc' = SatStart(pc.k + 1)
    /\ theory' = <<>>
    /\ query' = None
    /\ m' = Model
    /\ res' = FALSE
    /\ UNCHANGED logic

SatInit ==
    /\ pc = SatStart(3)
    /\ theory = <<>>
    /\ query = None
    /\ logic = LUKASIEWICZ
    /\ m = Model
    /\ res = FALSE

SatNext ==
    \/ sat_test_full_godel
    \/ sat_test_partial
    \/ sat_test_partial_godel
    \/ sat_test_full_lukasiewicz
    \/ sat_test_excluded
    \/ sat_test_partial_excluded
    \/ sat_test_partial_excluded_lukasiewicz
    \/ test_sat

SatSpec == SatInit /\ [][SatNext]_vars

(***************************************************************************)
(* demo.py: the sentences of demo_cat.  The demo writes ClosedRange, a name *)
(* no module defines; the closed interval of theory.py is meant.           *)
(***************************************************************************)
whiskers == Prop("whiskers")

tail == Prop("tail")

cat == Prop("cat")

dog == Prop("dog")

pet == Prop("pet")

demo_cat_s1 ==
    SimpleSentence(Implies(And(<<whiskers, tail>>), cat), <<ClosedInterval(Frac(3, 4), One)>>)

\* Implies(Or(cat, dog), pet, logic=Logic.GODEL): the override is on the Implies.
demo_cat_s2 ==
    SimpleSentence(WithLogic(Implies(Or(<<cat, dog>>), pet), GODEL),
                   <<ClosedInterval(Frac(3, 4), One)>>)

demo_cat_theory1 == Theory(<<demo_cat_s1, demo_cat_s2>>)

demo_cat_goal == Not(tail)

demo_cat_query1 ==
    SimpleSentence(Implies(And(<<whiskers, Not(pet)>>), demo_cat_goal),
                   <<ClosedInterval(Frac(1, 2), One)>>)

(***************************************************************************)
(* A client of the library: one theory, one query, one logic, one call     *)
(***************************************************************************)
a == Prop("a")

b == Prop("b")

\* The second sentence of the cat scenario with the override on the Or.
cat_s2_override_on_Or ==
    SimpleSentence(Implies(WithLogic(Or(<<cat, dog>>), GODEL), pet),
                   <<ClosedInterval(Frac(3, 4), One)>>)

\* De Morgan's law of the strong connectives.
DeMorgan == Equiv(Not(Or(<<phi, psi>>)), And(<<Not(phi), Not(psi)>>))

\* The theories a client is given.
Theories ==
    { Theory(<<>>),
      Theory(<<a>>),
      Theory(<<a, Not(a)>>),
      Theory(<<SimpleSentence(Or(<<a, b>>), <<AtLeast(Frac(1, 2))>>),
               SimpleSentence(a, <<LessThan(Frac(1, 2))>>)>>),
      Theory(<<SimpleSentence(a, <<OpenInterval(Zero, One)>>), Or(<<a, Not(a)>>)>>),
      Theory(<<Not(a), SimpleSentence(Inv(a), <<Point(Zero)>>)>>) }

\* The queries a client asks: formulae (coerced to truth value 1), sentences.
Queries ==
    { a, b, Const(0), Not(a), Inv(a), Implies(a, b), Or(<<a, Not(a)>>),
      Equiv(Not(a), Inv(a)), Delta(Or(<<a, b>>)), DeMorgan,
      SimpleSentence(b, <<GreaterThan(Zero)>>),
      SimpleSentence(And(<<a, b>>), <<Point(Zero), AtLeast(Frac(1, 2))>>),
      SimpleSentence(WithLogic(And(<<a, a>>), GODEL), <<OpenUpperInterval(Zero, One)>>) }

\* What a client passes: any theory with any query under any logic, and the
\* cat scenario in both placements of its override.
Inputs ==
    [theory : Theories, query : Queries, logic : Logic]
    \cup {[theory |-> T, query |-> demo_cat_query1, logic |-> LUKASIEWICZ] :
            T \in {demo_cat_theory1, Theory(<<demo_cat_s1, cat_s2_override_on_Or>>)}}

\* theory.entails(query, logic=logic)
call_entails ==
    /\ pc = "ready"
    /\ entails(theory, query, logic)
    /\ pc' = "entails"

\* theory.satisfiable(logic=logic)
call_satisfiable ==
    /\ pc = "ready"
    /\ satisfiable(theory, logic)
    /\ pc' = "satisfiable"

Init ==
    /\ \E in \in Inputs : theory = in.theory /\ query = in.query /\ logic = in.logic
    /\ m = Model
    /\ res = FALSE
    /\ pc = "ready"

Next == call_entails \/ call_satisfiable

Spec == Init /\ [][Next]_vars

(***************************************************************************)
(* A client that asks satisfiable, adds one sentence to the theory's list  *)
(* of sentences, and asks satisfiable again                                *)
(***************************************************************************)
\* list.insert(i, s) on Theory.sentences, i counted from 0.
insert(sentences, i, s) ==
    SubSeq(sentences, 1, i) \o <<s>> \o SubSeq(sentences, i + 1, Len(sentences))

\* The theories the client starts from.
MonoTheories ==
    { Theory(<<>>),
      Theory(<<a>>),
      Theory(<<a, Not(a)>>),
      Theory(<<a, Inv(a)>>),
      Theory(<<Or(<<a, b>>), SimpleSentence(a, <<Point(Zero)>>), Not(b)>>),
      Theory(<<SimpleSentence(a, <<LessThan(Frac(1, 2))>>),
               SimpleSentence(a, <<AtLeast(Frac(1, 2))>>)>>) }

\* The sentences the client adds; all but one share a formula with a theory.
MonoSentences ==
    { SimpleSentence(b, <<Point(One)>>),
      SimpleSentence(a, <<GreaterThan(Zero)>>),
      SimpleSentence(Not(a), <<AtLeast(Zero)>>),
      SimpleSentence(Inv(a), <<AtLeast(Zero)>>),
      SimpleSentence(Or(<<a, b>>), <<Point(Zero), Point(One)>>) }

\* theory.satisfiable(logic=logic), before and after the sentence is added.
mono_satisfiable ==
    /\ pc.step \in {"start", "added"}
    /\ satisfiable(theory, logic)
    /\ pc' = IF pc.step = "start"
             THEN [pc EXCEPT !.step = "asked", !.before = res']
             ELSE [pc EXCEPT !.step = "done"]

\* theory.sentences.insert(pc.at, pc.s): the theory has one more sentence.
mono_insert ==
    /\ pc.step = "asked"
    /\ theory' = insert(theory, pc.at, pc.s)
    /\ pc' = [pc EXCEPT !.step = "added"]
    /\ UNCHANGED <<query, logic, m, res>>

MonoInit ==
    /\ theory \in MonoTheories
    /\ query = None
    /\ logic \in Logic
    /\ m = Model
    /\ res = FALSE
    /\ \E s \in MonoSentences, at \in 0..Len(theory) :
            pc = [step |-> "start", s |-> s, at |-> at, before |-> FALSE]

MonoNext == mono_satisfiable \/ mono_insert

MonoSpec == MonoInit /\ [][MonoNext]_vars

(***************************************************************************)
(* all_axioms.py: the specialization filter of the axiom enumerator        *)
(***************************************************************************)
\* Formula.__eq__: the same class and the same repr.
Formula_eq(self, other) == self.type = other.type /\ Repr(self) = Repr(other)

\* The number of propositions p0, p1, ... of the bounded formulae.
MaxProps == 2

p(i) == Prop("p" \o ToString(i))

\* MAX_SIZE = 4
MAX_SIZE == 4

\* index(p): int(p.name[1:]); the enumerator writes indices below MAX_SIZE.
index(f) == CHOOSE i \in 0..(MaxProps + MAX_SIZE) : f.name = "p" \o ToString(i)

RECURSIVE degree(_)

degree(f) ==
    IF f.type = "Prop" THEN index(f) + 1
    ELSE IF IsOperator(f)
         THEN MaxOf({degree(f.operands[i]) : i \in 1..Len(f.operands)})
         ELSE 0

\* class TruthReq(Enum); TruthReq.neg is the negated number.
AT_MOST == -1

EQUAL == 0

AT_LEAST == 1

TruthReq == {AT_MOST, EQUAL, AT_LEAST}

\* isinstance(f, Not): Inv is a subclass of Not.
IsNot(f) == f.type \in {"Not", "Inv"}

IsImplies(f) == f.type = "Implies"

\* A variant of neg that returns its argument.
neg_same(f) == f

\* neg(f): f.arg if isinstance(f, Not) else Not(f)
neg(f) == IF IsNot(f) THEN f.operands[1] ELSE Not(f)

\* [[None] * degree(a)], the default of the parameter mappings.
no_mappings(ax) == <<[i \in 1..degree(ax) |-> None]>>

\* A variant of the loop over mappings that keeps every mapping and
\* overwrites the slot.
bind_unchecked(f, ax, mappings) ==
    [k \in 1..Len(mappings) |-> [mappings[k] EXCEPT ![index(ax) + 1] = f]]

\* The loop of specializes over mappings when a is a Prop: keep the mappings
\* whose slot index(a) is None or equal to f, with the slot set to f.
bind(f, ax, mappings) ==
    LET i == index(ax) + 1
        free(mapping) == IsNone(mapping[i]) \/ Formula_eq(mapping[i], f)
        kept(ms) == [k \in 1..Len(ms) |-> [ms[k] EXCEPT ![i] = f]]
    IN  kept(SelectSeq(mappings, free))

RECURSIVE specializes(_, _, _, _)

\* specializes(f, a, req, mappings) with mappings given.
specializes(f, ax, req, mappings) ==
    (IF req = AT_LEAST /\ IsImplies(f)
     THEN specializes(f.operands[2], ax, req, mappings)
          \o specializes(neg(f.operands[1]), ax, req, mappings)
     ELSE <<>>)
    \o
    (IF req = AT_MOST /\ IsNot(f) /\ IsImplies(f.operands[1])
     THEN specializes(f.operands[1].operands[1], ax, req, mappings)
          \o specializes(neg(f.operands[1].operands[2]), ax, req, mappings)
     ELSE <<>>)
    \o
    (IF ax.type = "Prop" THEN bind(f, ax, mappings)
     ELSE IF IsNot(ax) THEN specializes(neg(f), ax.operands[1], -req, mappings)
     ELSE IF IsImplies(ax) /\ IsImplies(f)
          THEN specializes(f.operands[2], ax.operands[2], req,
                           specializes(f.operands[1], ax.operands[1], -req, mappings))
               \o specializes(neg(f.operands[1]), ax.operands[2], req,
                              specializes(neg(f.operands[2]), ax.operands[1], -req, mappings))
     ELSE IF Formula_eq(ax, f) THEN mappings
     ELSE <<>>)

\* The bounded formulae over p0, p1, ..., Not and Implies.
Grow(S) == S \cup {Not(x) : x \in S} \cup {Implies(x, y) : x, y \in S}

Candidates == Grow(Grow({p(i) : i \in 0..(MaxProps - 1)}))

\* The formulae a candidate is compared with: theorems of LUKASIEWICZ logic
\* of the kind the enumerator records, and formulae that are not theorems.
Recorded ==
    { Implies(p(0), p(0)),
      Implies(p(0), Implies(p(1), p(0))),
      Implies(Not(p(0)), Implies(p(0), p(1))),
      Implies(p(0), Not(Not(p(0)))),
      Implies(Not(Not(p(0))), p(0)),
      Implies(Implies(Not(p(0)), Not(p(1))), Implies(p(1), p(0))),
      Not(Not(Implies(p(0), p(0)))),
      p(0),
      Not(p(0)),
      Implies(p(0), p(1)),
      Implies(p(0), Not(p(0))) }

\* specializes(f, a, req) as a step: the mappings it returns.
call_specializes ==
    /\ pc.step = "start"
    /\ pc' = [pc EXCEPT !.step = "specialized",
                        !.mappings = specializes(pc.f, pc.ax, pc.req, no_mappings(pc.ax))]
    /\ UNCHANGED <<theory, query, logic, m, res>>

\* empty_theory.entails(a)
entails_recorded ==
    /\ pc.step = "specialized"
    /\ entails(theory, pc.ax, logic)
    /\ pc' = [pc EXCEPT !.step = "recorded", !.axiom = res']

\* empty_theory.entails(f)
entails_candidate ==
    /\ pc.step = "recorded"
    /\ entails(theory, pc.f, logic)
    /\ pc' = [pc EXCEPT !.step = "done"]

AxiomInit ==
    /\ theory = Theory(<<>>)
    /\ query \in Candidates
    /\ logic = LUKASIEWICZ
    /\ m = Model
    /\ res = FALSE
    /\ \E ax \in Recorded, req \in {EQUAL, AT_LEAST} :
            pc = [step |-> "start", f |-> query, ax |-> ax, req |-> req,
                  mappings |-> <<>>, axiom |-> FALSE]

AxiomNext == call_specializes \/ entails_recorded \/ entails_candidate

AxiomSpec == AxiomInit /\ [][AxiomNext]_vars

(***************************************************************************)
(* A client that prints two formulae and compares them with ==             *)
(***************************************************************************)
\* The formulae the client builds.
ReprFormulae ==
    { a, b, Const(0), Const(1),
      Not(a), Inv(a), WithLogic(Not(a), GODEL),
      Implies(a, Const(0)), WithLogic(Implies(a, Const(0)), LUKASIEWICZ),
      And(<<a, b>>), And(<<b, a>>), And(<<a>>), WeakAnd(<<a, b>>),
      WithLogic(And(<<a, b>>), GODEL), WithLogic(And(<<a, b>>), LUKASIEWICZ),
      And(<<And(<<a, b>>), a>>), And(<<a, And(<<b, a>>)>>),
      Formula_mul(a, PyInt(2)), Formula_mul(a, PyFloat(2, 1)), Formula_mul(b, PyInt(2)),
      Formula_truediv(a, PyInt(2)), Formula_truediv(a, PyFloat(1, 2)),
      Formula_pow(a, PyInt(2)), Formula_pow(a, PyFloat(2, 1)), Formula_pow(a, PyFloat(3, 2)),
      Formula_pow(Formula_mul(a, PyInt(2)), PyInt(3)) }

\* repr(f) and repr(g)
call_repr ==
    /\ pc.step = "start"
    /\ pc' = [pc EXCEPT !.step = "printed", !.repr_f = Repr(query), !.repr_g = Repr(pc.g)]
    /\ UNCHANGED <<theory, query, logic, m, res>>

\* f == g
call_eq ==
    /\ pc.step = "printed"
    /\ res' = Formula_eq(query, pc.g)
    /\ pc' = [pc EXCEPT !.step = "done"]
    /\ UNCHANGED <<theory, query, logic, m>>

ReprInit ==
    /\ theory = Theory(<<>>)
    /\ query \in ReprFormulae
    /\ logic = LUKASIEWICZ
    /\ m = Model
    /\ res = FALSE
    /\ \E g \in ReprFormulae : pc = [step |-> "start", g |-> g, repr_f |-> "", repr_g |-> ""]

ReprNext == call_repr \/ call_eq

ReprSpec == ReprInit /\ [][ReprNext]_vars

(***************************************************************************)
(* A client that constructs an interval, a sentence or a weighted formula  *)
(* from the arguments it is given, and asks satisfiable of the result      *)
(***************************************************************************)
IntervalClasses ==
    {"ClosedInterval", "OpenInterval", "OpenLowerInterval", "OpenUpperInterval"}

\* The bounds the client passes: inside, on the ends of, and outside [0, 1].
BoundArgs == {Frac(-1, 4), Zero, Frac(1, 4), Frac(3, 4), One, Frac(5, 4)}

\* The scalars the client passes to Coef and Exp.
ScalarArgs == {PyInt(-1), PyInt(0), PyInt(2), PyFloat(2, 1), PyFloat(-2, 1), nan}

\* The arguments of one construction.
ConstructorArgs ==
    [class : IntervalClasses, lower : BoundArgs, upper : BoundArgs]
    \cup {[class |-> "SimpleSentence", intervals |-> ivs] :
            ivs \in {<<>>, <<Point(Zero)>>, <<AtMost(Frac(1, 4)), GreaterThan(Frac(3, 4))>>}}
    \cup [class : {"Coef", "Exp"}, scalar : ScalarArgs]

\* The constructors run on the arguments: RealInterval.__init__,
\* SimpleSentence.__init__, Coef.__init__ and Exp.__init__ assign their
\* arguments to the object's attributes, and none of them raises.
Constructed(args) ==
    CASE args.class \in IntervalClasses ->
            SimpleSentence(a, <<RealInterval(args.class, args.lower, args.upper)>>)
      [] args.class = "SimpleSentence" -> SimpleSentence(a, args.intervals)
      [] args.class = "Coef" -> SimpleSentence(Coef(args.scalar, a), <<AtLeast(Frac(1, 2))>>)
      [] args.class = "Exp" -> SimpleSentence(Exp(args.scalar, a), <<AtLeast(Frac(1, 2))>>)

\* The object is built and put into a theory; raised tells whether a
\* constructor raised an error.
construct ==
    /\ pc.step = "start"
    /\ theory' = Theory(<<Constructed(pc.args)>>)
    /\ pc' = [pc EXCEPT !.step = "constructed", !.raised = FALSE]
    /\ UNCHANGED <<query, logic, m, res>>

\* What the solver library does with a sum over no variable and with a nan
\* coefficient is not decided by this code: either result may come back.
Decided(args) ==
    /\ args.class = "SimpleSentence" => args.intervals # <<>>
    /\ args.class \in {"Coef", "Exp"} => args.scalar # nan

\* theory.satisfiable(logic=logic) on the theory that holds the object.
construct_satisfiable ==
    /\ pc.step = "constructed"
    /\ ~pc.raised
    /\ IF Decided(pc.args) THEN satisfiable(theory, logic)
       ELSE /\ res' \in BOOLEAN
            /\ m' = Theory_model(theory, None, logic)
            /\ query' = None
            /\ UNCHANGED <<theory, logic>>
    /\ pc' = [pc EXCEPT !.step = "called"]

ConstructInit ==
    /\ theory = Theory(<<>>)
    /\ query = None
    /\ logic \in Logic
    /\ m = Model
    /\ res = FALSE
    /\ \E args \in ConstructorArgs : pc = [step |-> "start", args |-> args, raised |-> FALSE]

ConstructNext == construct \/ construct_satisfiable

ConstructSpec == ConstructInit /\ [][ConstructNext]_vars

(***************************************************************************)
(* A client that asks the same question under GODEL and under LUKASIEWICZ  *)
(* of a theory built from Props, Consts and the operators that are defined *)
(* without a t-norm                                                        *)
(***************************************************************************)
AmbientTheories ==
    { Theory(<<>>),
      Theory(<<a>>),
      Theory(<<SimpleSentence(WeakOr(<<a, b>>), <<AtLeast(Frac(1, 2))>>), Inv(a)>>),
      Theory(<<Nabla(a), Inv(a)>>),
      Theory(<<SimpleSentence(Formula_mul(a, PyInt(2)), <<Point(One)>>),
               SimpleSentence(WeakAnd(<<a, b, Const(1)>>), <<GreaterThan(Zero)>>)>>),
      Theory(<<SimpleSentence(Formula_pow(a, PyInt(2)), <<AtLeast(Frac(1, 2))>>), Inv(Delta(b))>>) }

AmbientQueries ==
    { a, Const(0), Inv(a), Inv(Inv(a)), Nabla(a), Delta(WeakOr(<<a, b>>)),
      SimpleSentence(WeakOr(<<a, Inv(a)>>), <<AtLeast(Frac(1, 2))>>),
      SimpleSentence(WeakAnd(<<a, Inv(a)>>), <<AtMost(Frac(1, 2))>>),
      SimpleSentence(Inv(b), <<LessThan(Frac(1, 2))>>),
      SimpleSentence(Formula_pow(a, PyFloat(2, 1)), <<Point(Zero), GreaterThan(Frac(1, 4))>>),
      SimpleSentence(Formula_mul(Inv(a), PyInt(2)), <<Point(One)>>),
      SimpleSentence(a, <<AtLeast(Frac(3, 4))>>) }

\* theory.entails(query, logic=Logic.GODEL), then the same with
\* logic=Logic.LUKASIEWICZ; the client keeps the first model and result.
ambient_entails ==
    /\ pc.step \in {"start", "entails_godel"}
    /\ entails(theory, pc.q, IF pc.step = "start" THEN GODEL ELSE LUKASIEWICZ)
    /\ pc' = IF pc.step = "start"
             THEN [pc EXCEPT !.step = "entails_godel", !.m = m', !.res = res']
             ELSE [pc EXCEPT !.step = "entails_both"]

\* theory.satisfiable(logic=Logic.GODEL), then the same with
\* logic=Logic.LUKASIEWICZ.
ambient_satisfiable ==
    /\ pc.step \in {"entails_both", "satisfiable_godel"}
    /\ satisfiable(theory, IF pc.step = "entails_both" THEN GODEL ELSE LUKASIEWICZ)
    /\ pc' = IF pc.step = "entails_both"
             THEN [pc EXCEPT !.step = "satisfiable_godel", !.m = m', !.res = res']
             ELSE [pc EXCEPT !.step = "satisfiable_both"]

AmbientInit ==
    /\ theory \in AmbientTheories
    /\ query \in AmbientQueries
    /\ logic = GODEL
    /\ m = Model
    /\ res = FALSE
    /\ pc = [step |-> "start", q |-> query, m |-> Model, res |-> FALSE]

AmbientNext == ambient_entails \/ ambient_satisfiable

AmbientSpec == AmbientInit /\ [][AmbientNext]_vars

(***************************************************************************)
(* op.py: printing formulae that may refer to their own ancestors.  Here a *)
(* formula is an object: heap maps each object to its class, its override  *)
(* and the objects that are its operands, and depths maps each object to   *)
(* its attribute _depth.                                                   *)
(***************************************************************************)
\* No attribute _depth: hasattr(self, "_depth") is False.
NoDepth == -1

\* The property symb of the operator classes that are printed here (And, Or,
\* Implies, Equiv, Not, Delta, Nabla).
symb(type) ==
    CASE type = "And" -> "⊗"
      [] type = "Or" -> "⊕"
      [] type = "Implies" -> "→"
      [] type = "Equiv" -> "↔"
      [] type = "Not" -> "¬"
      [] type = "Delta" -> "△"
      [] type = "Nabla" -> "▽"

\* isinstance(self, UnaryOperator), of the classes printed here.
IsUnaryOperator(type) == type \in {"Not", "Delta", "Nabla"}

RECURSIVE Dots(_)

\* '.' * k
Dots(k) == IF k <= 0 THEN "" ELSE "." \o Dots(k - 1)

\* A variant of del self._depth that keeps the attribute.
del_depth_kept(depths, self) == depths

\* del self._depth
del_depth(depths, self) == [depths EXCEPT ![self] = NoDepth]

RECURSIVE Formula_print(_, _, _, _, _)
RECURSIVE print_operands(_, _, _, _, _, _)

\* The operands of self printed one after the other at depth d and joined by
\* sep; each is printed with the depths the one before it has left.
print_operands(fn, heap, self, i, d, depths) ==
    LET ops == heap[self].operands
        sep == IF fn = "repr" THEN ", " ELSE " " \o symb(heap[self].type) \o " "
        glue(r, t) == [str |-> r.str \o (IF i < Len(ops) THEN sep ELSE "") \o t.str,
                       depths |-> t.depths]
        rest(r) == glue(r, print_operands(fn, heap, self, i + 1, d, r.depths))
    IN  IF i > Len(ops) THEN [str |-> "", depths |-> depths]
        ELSE rest(Formula_print(fn, heap, ops[i], d, depths))

\* The functions that Operator.__repr__, Operator.__str__ and
\* UnaryOperator.__str__ hand to _annotate_recurrence.
print_fn(fn, heap, self, d, depths) ==
    LET node == heap[self]
        logic_arg == IF node.logic # NoLogic
                     THEN (IF Len(node.operands) > 0 THEN ", " ELSE "") \o "logic=" \o node.logic
                     ELSE ""
        as_repr(r) == [str |-> node.type \o "(" \o r.str \o logic_arg \o ")", depths |-> r.depths]
        as_unary(r) == [str |-> symb(node.type) \o r.str, depths |-> r.depths]
        as_str(r) == [str |-> (IF Len(node.operands) <= 1
                               THEN "(" \o symb(node.type) \o r.str \o ")"
                               ELSE "(" \o r.str \o ")"),
                      depths |-> r.depths]
    IN  IF fn = "repr" THEN as_repr(print_operands(fn, heap, self, 1, d, depths))
        ELSE IF IsUnaryOperator(node.type)
             THEN as_unary(Formula_print(fn, heap, node.operands[1], d, depths))
             ELSE as_str(print_operands(fn, heap, self, 1, d, depths))

\* Operator._annotate_recurrence
annotate_recurrence(fn, heap, self, depth, depths) ==
    LET finally(r) == [str |-> r.str, depths |-> del_depth(r.depths, self)]
    IN  IF depths[self] # NoDepth
        THEN [str |-> Dots(depth - depths[self] + 1), depths |-> depths]
        ELSE finally(print_fn(fn, heap, self, depth + 1, [depths EXCEPT ![self] = depth]))

\* self.__repr__(_depth) and self.__str__(_depth): the string, and the
\* attributes _depth of all objects when the call returns.
Formula_print(fn, heap, self, depth, depths) ==
    LET node == heap[self]
    IN  IF node.type = "Prop"
        THEN [str |-> IF fn = "repr" THEN "Prop('" \o node.name \o "')" ELSE node.name,
              depths |-> depths]
        ELSE IF node.type = "Const"
        THEN [str |-> IF fn = "repr" THEN "Const(" \o ToString(node.val) \o ")"
                      ELSE ToString(node.val),
              depths |-> depths]
        ELSE annotate_recurrence(fn, heap, self, depth, depths)

\* The objects: three operators whose operands are any of the objects, and
\* one proposition.  f = Or(); f.operands = [f, Not(f)] is among them.
Objects == 1..4

Heaps ==
    { [i \in Objects |->
        CASE i = 1 -> Operator("Or", o1, NoLogic)
          [] i = 2 -> Operator("Not", <<o2>>, NoLogic)
          [] i = 3 -> Operator("Implies", o3, GODEL)
          [] i = 4 -> a] :
      o1 \in [1..2 -> Objects], o2 \in Objects, o3 \in [1..2 -> {1, 2, 4}] }

\* repr(f)
print_repr ==
    /\ pc.step \in {"start", "str"}
    /\ LET r == Formula_print("repr", pc.heap, pc.f, 0, pc.depths)
       IN  pc' = IF pc.step = "start"
                 THEN [pc EXCEPT !.step = "repr", !.repr = r.str, !.depths = r.depths]
                 ELSE [pc EXCEPT !.step = "again", !.again = r.str, !.depths = r.depths]
    /\ UNCHANGED <<theory, query, logic, m, res>>

\* str(f)
print_str ==
    /\ pc.step = "repr"
    /\ LET r == Formula_print("str", pc.heap, pc.f, 0, pc.depths)
       IN  pc' = [pc EXCEPT !.step = "str", !.str = r.str, !.depths = r.depths]
    /\ UNCHANGED <<theory, query, logic, m, res>>

PrintInit ==
    /\ theory = Theory(<<>>)
    /\ query = None
    /\ logic = LUKASIEWICZ
    /\ m = Model
    /\ res = FALSE
    /\ \E heap \in Heaps, f \in 1..3 :
            pc = [step |-> "start", heap |-> heap, f |-> f,
                  depths |-> [i \in Objects |-> NoDepth],
                  repr |-> "", str |-> "", again |-> ""]

PrintNext == print_repr \/ print_str

PrintSpec == PrintInit /\ [][PrintNext]_vars

(***************************************************************************)
(* A client that asks entails of a formula whose outermost operator may    *)
(* carry an override and whose first operand is an operator without one    *)
(***************************************************************************)
\* The operators nested in the outer operator; none has an override.
InnerOperators ==
    { And(<<a, b>>), Or(<<a, a>>), Implies(a, b), Equiv(a, b), Not(a) }

\* The outer operators over the operand x, without override.
OuterOperators(x) ==
    { And(<<x, b>>), Or(<<x, b>>), Implies(x, a), Equiv(x, b), Not(x) }

\* Theory().entails(query, logic=logic)
override_entails ==
    /\ pc.step = "start"
    /\ entails(theory, query, logic)
    /\ pc' = [pc EXCEPT !.step = "done"]

OverrideInit ==
    /\ theory = Theory(<<>>)
    /\ \E x \in InnerOperators :
        /\ \E outer \in OuterOperators(x), lg \in Logic \cup {NoLogic} :
                query = WithLogic(outer, lg)
        /\ pc = [step |-> "start", inner |-> x]
    /\ logic \in Logic
    /\ m = Model
    /\ res = FALSE

OverrideNext == override_entails

OverrideSpec == OverrideInit /\ [][OverrideNext]_vars

(***************************************************************************)
(* A client that encodes one sentence over a proposition, positively or    *)
(* negatively, and asks the solver for a solution with a given truth value *)
(***************************************************************************)
\* The bounds of the intervals, as (lower, upper); the last pair is empty.
IntervalBounds ==
    { <<Zero, One>>, <<Frac(1, 4), Frac(3, 4)>>, <<Frac(1, 2), Frac(1, 2)>>,
      <<Frac(3, 4), Frac(1, 4)>> }

\* Intervals of the four classes and of their specializations.
IntervalFamily ==
    { RealInterval(class, bd[1], bd[2]) : class \in IntervalClasses, bd \in IntervalBounds }
    \cup { Point(Zero), Point(One), AtLeast(Frac(1, 2)), AtMost(Frac(1, 2)),
           GreaterThan(Zero), GreaterThan(Frac(3, 4)), LessThan(One), LessThan(Frac(1, 4)) }

\* The sentences over the proposition a: one interval, or a union of two.
SentenceFamily ==
    { SimpleSentence(a, <<iv>>) : iv \in IntervalFamily }
    \cup { SimpleSentence(a, <<iv, jv>>) : iv \in IntervalFamily, jv \in IntervalFamily }

\* m.add_constraint(val == v / Den)
fix_value(mm, val, v) ==
    add_constraint(add_constraint(mm, BoundCt("ge_bound", val, Frac(v, Den), 0), ""),
                   BoundCt("le_bound", val, Frac(v, Den), 0), "")

\* s.configure(m, gap, logic) into a fresh model, the value fixed, solve.
sentence_configure ==
    /\ pc.step = "start"
    /\ theory' = <<pc.s>>
    /\ m' = fix_value(SimpleSentence_configure(pc.s, Model, logic), ValOf(a, Formula_configure(a, Model)), pc.v)
    /\ res' = SolveAboveTol(m')
    /\ pc' = [pc EXCEPT !.step = "configured"]
    /\ UNCHANGED <<query, logic>>

\* s.compliment(m, gap, logic) into a fresh model, the value fixed, solve.
sentence_compliment ==
    /\ pc.step = "start"
    /\ query' = pc.s
    /\ m' = fix_value(SimpleSentence_compliment(pc.s, Model, logic), ValOf(a, Formula_configure(a, Model)), pc.v)
    /\ res' = SolveAboveTol(m')
    /\ pc' = [pc EXCEPT !.step = "complimented"]
    /\ UNCHANGED <<theory, logic>>

SentenceInit ==
    /\ theory = <<>>
    /\ query = None
    /\ logic = GODEL
    /\ m = Model
    /\ res = FALSE
    /\ \E s \in SentenceFamily, v \in 0..Den : pc = [step |-> "start", s |-> s, v |-> v]

SentenceNext == sentence_configure \/ sentence_compliment

SentenceSpec == SentenceInit /\ [][SentenceNext]_vars

(***************************************************************************)
(* A client that calls specializes(f, a) with the default requirement on   *)
(* formulae and patterns of several operator classes and overrides         *)
(***************************************************************************)
\* The patterns a formula is matched against.
Patterns ==
    { p(0), Not(p(0)), Inv(p(0)), WithLogic(Not(p(0)), GODEL), Not(Not(p(0))),
      Implies(p(0), p(0)), Implies(p(0), p(1)), WithLogic(Implies(p(0), p(1)), GODEL),
      Implies(Not(p(0)), p(1)), Implies(p(0), Implies(p(1), p(0))),
      And(<<p(0), p(1)>>), WithLogic(And(<<p(0), p(1)>>), GODEL), Or(<<p(0), p(0)>>) }

\* The formulae matched: the candidates of the enumerator and formulae of
\* other classes, arities and overrides.
Matched ==
    Candidates
    \cup { Inv(p(1)), And(<<p(0), p(1)>>), And(<<p(1), p(0)>>), And(<<p(0), p(1), p(0)>>),
           WithLogic(And(<<p(0), p(1)>>), GODEL), WithLogic(And(<<p(0), p(1)>>), LUKASIEWICZ),
           Or(<<p(0), p(0)>>), Or(<<p(1), p(1)>>), Equiv(p(0), p(1)),
           WithLogic(Implies(p(1), p(0)), GODEL), WithLogic(Not(p(1)), LUKASIEWICZ) }

UnifyInit ==
    /\ theory = Theory(<<>>)
    /\ query \in Matched
    /\ logic = LUKASIEWICZ
    /\ m = Model
    /\ res = FALSE
    /\ \E ax \in Patterns :
            pc = [step |-> "start", f |-> query, ax |-> ax, req |-> EQUAL,
                  mappings |-> <<>>, axiom |-> FALSE]

UnifyNext == call_specializes

UnifySpec == UnifyInit /\ [][UnifyNext]_vars

(***************************************************************************)
(* all_axioms.py: all_axioms, the enumeration of formulae by size          *)
(***************************************************************************)
\* s comes before t in lexicographic order.
LexLess(s, t) ==
    \E i \in 1..Len(s) : s[i] < t[i] /\ \A j \in 1..(i - 1) : s[j] = t[j]

LexMin(S) == CHOOSE x \in S : \A y \in S \ {x} : LexLess(x, y)

RECURSIVE InOrder(_)

\* The tuples of S in the order itertools yields them.
InOrder(S) ==
    LET rest(x) == <<x>> \o InOrder(S \ {x})
    IN  IF S = {} THEN <<>> ELSE rest(LexMin(S))

RECURSIVE Concat(_, _)

\* The concatenation of the sequences ss[i], ss[i + 1], ...
Concat(ss, i) == IF i > Len(ss) THEN <<>> ELSE ss[i] \o Concat(ss, i + 1)

\* permutations(range(n), k)
permutations(n, k) ==
    InOrder({s \in [1..k -> 0..(n - 1)] : \A x, y \in 1..k : x # y => s[x] # s[y]})

\* combinations(range(n), k)
combinations(n, k) ==
    InOrder({s \in [1..k -> 0..(n - 1)] : \A x, y \in 1..k : x < y => s[x] < s[y]})

\* The body of the loops of all_perms: perm takes a fresh index at each
\* position of merger and the entries of selection, in order, elsewhere.
merge(selection, merger, size, n_symb_so_far) ==
    [pos \in 1..size |->
        IF \E i \in 1..Len(merger) : merger[i] = pos - 1
        THEN n_symb_so_far + (CHOOSE i \in 1..Len(merger) : merger[i] = pos - 1) - 1
        ELSE selection[pos - Cardinality({i \in 1..Len(merger) : merger[i] < pos - 1})]]

\* all_perms(size, n_symb_so_far): the perms in the order they are yielded.
all_perms(size, n_symb_so_far) ==
    LET mergers(k, selection) ==
            LET ms == combinations(size, size - k)
            IN  [x \in 1..Len(ms) |-> merge(selection, ms[x], size, n_symb_so_far)]
        selections(k) ==
            LET ss == permutations(n_symb_so_far, k)
            IN  Concat([x \in 1..Len(ss) |-> mergers(k, ss[x])], 1)
        top == IF size < n_symb_so_far THEN size ELSE n_symb_so_far
    IN  Concat([k1 \in 1..(top + 1) |-> selections(k1 - 1)], 1)

RECURSIVE apply_perm(_, _)

apply_perm(f, perm) ==
    IF f.type = "Prop" THEN p(perm[index(f) + 1])
    ELSE IF IsOperator(f)
         THEN Operator(f.type, [x \in 1..Len(f.operands) |-> apply_perm(f.operands[x], perm)],
                       NoLogic)
         ELSE f

\* formulae[size - part - 1]
rhs_bucket(size, part) == size - part - 1

\* A variant of the body of the innermost loop that wraps the candidate in a
\* further implication.
loop_body_wrapped(lhs, perm_rhs, size, part, i, j) ==
    <<Implies(lhs, Implies(lhs, perm_rhs))>>

\* The calls of check_if_axiom in the body of the innermost loop.
loop_body(lhs, perm_rhs, size, part, i, j) ==
    <<Implies(lhs, perm_rhs)>>
    \o (IF 2 * part < size - 1 \/ (2 * part = size - 1 /\ i <= j)
        THEN <<Implies(Not(lhs), perm_rhs)>> ELSE <<>>)
    \o (IF 2 * part > size - 1 \/ (2 * part = size - 1 /\ i >= j)
        THEN <<Implies(lhs, Not(perm_rhs))>> ELSE <<>>)

\* The arguments of check_if_axiom, in order, in the iteration of the outer
\* loop for size; the loops read the buckets below size only.
candidates(formulae, size) ==
    LET perms(part, i, j, lhs, rhs) ==
            LET ps == all_perms(degree(rhs), degree(lhs))
            IN  Concat([x \in 1..Len(ps) |->
                            loop_body(lhs, apply_perm(rhs, ps[x]), size, part, i, j)], 1)
        rhss(part, i, bucket) ==
            Concat([j1 \in 1..Len(bucket) |->
                        perms(part, i, j1 - 1, formulae[part + 1][i + 1], bucket[j1])], 1)
        lhss(part) ==
            Concat([i1 \in 1..Len(formulae[part + 1]) |->
                        rhss(part, i1 - 1,
                             IF rhs_bucket(size, part) + 1 \in 1..Len(formulae)
                             THEN formulae[rhs_bucket(size, part) + 1] ELSE <<>>)], 1)
    IN  Concat([part1 \in 1..size |-> lhss(part1 - 1)], 1)

\* A variant of the filter that never finds a recorded axiom specialized.
any_specializes_never(f, axs) == FALSE

\* any(specializes(f, a, TruthReq.AT_LEAST) for a in axioms)
any_specializes(f, axs) ==
    \E x \in 1..Len(axs) : specializes(f, axs[x], AT_LEAST, no_mappings(axs[x])) # <<>>

\* The n-th argument of check_if_axiom in the iteration for size, None when
\* the loops are exhausted.
candidate(formulae, size, n) ==
    LET nth(cs) == IF n \in 1..Len(cs) THEN cs[n] ELSE None
    IN  nth(candidates(formulae, size))

\* for size in range(1, MAX_SIZE): formulae.append([])
begin_size ==
    /\ pc.step = "size"
    /\ pc.size < MAX_SIZE
    /\ pc' = [pc EXCEPT !.step = "candidate",
                        !.formulae = Append(@, <<>>),
                        !.total = Len(candidates(pc.formulae, pc.size)),
                        !.n = 1,
                        !.f = candidate(pc.formulae, pc.size, 1)]
    /\ UNCHANGED <<theory, query, logic, m, res>>

\* check_if_axiom(f), its first condition: f specializes a recorded axiom
\* and is dropped, or goes on to the entailment.
check_specializes ==
    /\ pc.step = "candidate"
    /\ pc.n <= pc.total
    /\ IF any_specializes(pc.f, pc.axioms)
       THEN pc' = [pc EXCEPT !.n = @ + 1, !.discarded = @ + 1, !.outcome = "discarded",
                             !.f = candidate(pc.formulae, pc.size, pc.n + 1)]
       ELSE pc' = [pc EXCEPT !.step = "entails"]
    /\ UNCHANGED <<theory, query, logic, m, res>>

\* check_if_axiom(f), its second condition: empty_theory.entails(f), then
\* axioms.append(f) or formulae[-1].append(f).
check_entails ==
    /\ pc.step = "entails"
    /\ entails(theory, pc.f, LUKASIEWICZ)
    /\ IF res'
       THEN pc' = [pc EXCEPT !.step = "candidate", !.n = @ + 1, !.outcome = "recorded",
                             !.axioms = Append(@, pc.f),
                             !.f = candidate(pc.formulae, pc.size, pc.n + 1)]
       ELSE pc' = [pc EXCEPT !.step = "candidate", !.n = @ + 1, !.outcome = "appended",
                             !.formulae[Len(pc.formulae)] = Append(@, pc.f),
                             !.f = candidate(pc.formulae, pc.size, pc.n + 1)]

\* The loops over part, i, j and perm are exhausted.
end_size ==
    /\ pc.step = "candidate"
    /\ pc.n > pc.total
    /\ pc' = [pc EXCEPT !.step = "size", !.size = @ + 1, !.done = @ + pc.total]
    /\ UNCHANGED <<theory, query, logic, m, res>>

\* range(1, MAX_SIZE) is exhausted: all_axioms returns.
end_all_axioms ==
    /\ pc.step = "size"
    /\ pc.size >= MAX_SIZE
    /\ pc' = [pc EXCEPT !.step = "done"]
    /\ UNCHANGED <<theory, query, logic, m, res>>

\* empty_theory = Theory(); formulae = [[Prop("p0")]]; axioms = []
EnumInit ==
    /\ theory = Theory(<<>>)
    /\ query = None
    /\ logic = LUKASIEWICZ
    /\ m = Model
    /\ res = FALSE
    /\ pc = [step |-> "size", size |-> 1, n |-> 1, total |-> 0, f |-> None,
             formulae |-> <<<<p(0)>>>>, axioms |-> <<>>,
             discarded |-> 0, done |-> 0, outcome |-> ""]

EnumNext ==
    begin_size \/ check_specializes \/ check_entails \/ end_size \/ end_all_axioms

EnumSpec == EnumInit /\ [][EnumNext]_vars

(***************************************************************************)
(* op.py, theory.py: the slot val of the node objects through the reset    *)
(* and configure phases of Theory.entails, one step of the recursion at a  *)
(* time                                                                    *)
(***************************************************************************)
\* A variable of the model created by call k.
Var(k, name) == [model |-> k, name |-> name]

IsVar(v) == "model" \in DOMAIN v

\* The node objects: an Or and a Not whose operands are drawn below, the
\* propositions a and b and a constant.  Or(1, 4) refers to itself,
\* Or(2, 3) with Not(1) runs through a cycle of two.
SlotObjects == 1..5

SlotHeaps ==
    { [i \in SlotObjects |->
        CASE i = 1 -> Operator("Or", o1, NoLogic)
          [] i = 2 -> Operator("Not", <<o2>>, NoLogic)
          [] i = 3 -> a
          [] i = 4 -> Const(Frac(1, 2))
          [] i = 5 -> b] :
      o1 \in {<<3, 4>>, <<2, 3>>, <<1, 4>>}, o2 \in {1, 3, 5} }

\* The formulae of the sentences of a theory followed by the formula of the
\* query, as object ids.
RootLists == {<<1>>, <<2>>, <<1, 2>>, <<5>>, <<3, 2>>}

\* Calls of entails made one after another by the sequential client.
MaxCalls == 3

\* repr(self) + ".val"
var_name(heap, self) ==
    Formula_print("repr", heap, self, 0, [o \in DOMAIN heap |-> NoDepth]).str \o ".val"

\* A variant of Formula.reset that clears the slot and returns True whether
\* or not the slot was cleared before.
Formula_reset_always(heap, val, self) ==
    IF heap[self].type = "Const" THEN [val |-> val, ret |-> FALSE]
    ELSE [val |-> [val EXCEPT ![self] = None], ret |-> TRUE]

\* A variant of Formula.reset that clears the slot and never returns True.
Formula_reset_shallow(heap, val, self) ==
    [val |-> IF heap[self].type = "Const" THEN val ELSE [val EXCEPT ![self] = None],
     ret |-> FALSE]

\* A variant of Formula.reset that clears the slots of all objects, whether
\* or not the slot of self was cleared before.
Formula_reset_all(heap, val, self) ==
    IF heap[self].type = "Const" THEN [val |-> val, ret |-> FALSE]
    ELSE [val |-> [o \in DOMAIN val |-> IF heap[o].type = "Const" THEN val[o] ELSE None],
          ret |-> val[self] # None]

\* Formula.reset (Const.reset: pass): the slots afterwards and whether True
\* was returned.
Formula_reset(heap, val, self) ==
    IF heap[self].type = "Const" THEN [val |-> val, ret |-> FALSE]
    ELSE IF val[self] # None
         THEN [val |-> [val EXCEPT ![self] = None], ret |-> TRUE]
         ELSE [val |-> val, ret |-> FALSE]

\* Formula.configure(m, gap, logic) with m the model of call k
\* (Const.configure: pass).
Formula_configure_slot(heap, val, self, k) ==
    IF heap[self].type = "Const" THEN [val |-> val, ret |-> FALSE]
    ELSE IF val[self] = None
         THEN [val |-> [val EXCEPT ![self] = Var(k, var_name(heap, self))], ret |-> TRUE]
         ELSE [val |-> val, ret |-> FALSE]

\* The call op.reset() or op.configure(m, gap, logic) made by thread t: the
\* Formula part, and for an operator that got True the frame of the loop
\* over its operands.
call_on(t, self, r) ==
    [pc EXCEPT !.val = r.val,
               !.th[t].stack =
                   IF r.ret /\ IsOperator(pc.heap[self])
                   THEN Append(@, [self |-> self, i |-> 1]) ELSE @,
               !.th[t].trav[self] =
                   IF r.ret /\ IsOperator(pc.heap[self]) THEN @ + 1 ELSE @]

\* The frame on top of the stack of thread t.
Top(t) == pc.th[t].stack[Len(pc.th[t].stack)]

\* The state with the top frame of thread t moved on to its next operand.
Advance(t, s) ==
    [s EXCEPT !.th[t].stack[Len(pc.th[t].stack)].i = @ + 1]

\* The state with the top frame of thread t removed.
Pop(t, s) ==
    [s EXCEPT !.th[t].stack = SubSeq(@, 1, Len(@) - 1)]

\* self.m = Model(cts_by_name=True), and the start of the loops of reset.
entails_begin(t) ==
    /\ \/ pc.th[t].phase = "idle"
       \/ pc.th[t].phase = "returned" /\ pc.models < pc.limit
    /\ \E roots \in pc.inputs :
          pc' = [pc EXCEPT !.models = @ + 1,
                           !.th[t] = [phase |-> "reset", model |-> pc.models + 1,
                                      roots |-> roots, todo |-> roots, stack |-> <<>>,
                                      trav |-> [o \in SlotObjects |-> 0],
                                      cts |-> {}]]
    /\ UNCHANGED <<theory, query, logic, m, res>>

\* One step of the reset phase of thread t: s.reset() for the next sentence
\* or the query, op.reset() for the next operand of the operator on top of
\* the stack, or the return of Operator.reset.
reset_step(t) ==
    /\ pc.th[t].phase = "reset"
    /\ IF pc.th[t].stack # <<>>
       THEN LET self == Top(t).self
                i == Top(t).i
                op == pc.heap[self].operands[i]
            IN  IF i <= Len(pc.heap[self].operands)
                THEN pc' = Advance(t, call_on(t, op, Formula_reset(pc.heap, pc.val, op)))
                ELSE pc' = Pop(t, pc)
       ELSE /\ pc.th[t].todo # <<>>
            /\ LET s == Head(pc.th[t].todo)
               IN  pc' = [call_on(t, s, Formula_reset(pc.heap, pc.val, s))
                            EXCEPT !.th[t].todo = Tail(@)]
    /\ UNCHANGED <<theory, query, logic, m, res>>

\* The loops of reset are exhausted: the loops of configure start.
reset_end(t) ==
    /\ pc.th[t].phase = "reset"
    /\ pc.th[t].stack = <<>>
    /\ pc.th[t].todo = <<>>
    /\ pc' = [pc EXCEPT !.th[t].phase = "configure",
                        !.th[t].todo = pc.th[t].roots,
                        !.th[t].trav = [o \in SlotObjects |-> 0]]
    /\ UNCHANGED <<theory, query, logic, m, res>>

\* self._add_constraints(m, gap, logic) of the operator self in the model of
\* thread t: the constraint over self.val and the op.val as they are now.
add_constraints_at(t, self) ==
    [self |-> self, model |-> pc.th[t].model, val |-> pc.val[self],
     refs |-> [x \in 1..Len(pc.heap[self].operands) |-> pc.val[pc.heap[self].operands[x]]]]

\* One step of the configure phase of thread t: s.configure / query.compliment
\* for the next sentence or the query, op.configure for the next operand of
\* the operator on top of the stack, or _add_constraints and the return of
\* Operator.configure.
configure_step(t) ==
    /\ pc.th[t].phase = "configure"
    /\ IF pc.th[t].stack # <<>>
       THEN LET self == Top(t).self
                i == Top(t).i
                op == pc.heap[self].operands[i]
            IN  IF i <= Len(pc.heap[self].operands)
                THEN pc' = Advance(t, call_on(t, op,
                               Formula_configure_slot(pc.heap, pc.val, op, pc.th[t].model)))
                ELSE pc' = Pop(t, [pc EXCEPT !.th[t].cts = @ \cup {add_constraints_at(t, self)}])
       ELSE /\ pc.th[t].todo # <<>>
            /\ LET s == Head(pc.th[t].todo)
               IN  pc' = [call_on(t, s,
                              Formula_configure_slot(pc.heap, pc.val, s, pc.th[t].model))
                            EXCEPT !.th[t].todo = Tail(@)]
    /\ UNCHANGED <<theory, query, logic, m, res>>

\* self.m.maximize(self.gap); res = ...; return res
entails_return(t) ==
    /\ pc.th[t].phase = "configure"
    /\ pc.th[t].stack = <<>>
    /\ pc.th[t].todo = <<>>
    /\ pc' = [pc EXCEPT !.th[t].phase = "returned"]
    /\ UNCHANGED <<theory, query, logic, m, res>>

\* The threads 1..n before their first call, on freshly constructed nodes
\* (self.val = float("nan") of Formula.__init__).
SlotInitOf(n, limit, heaps, inputs) ==
    /\ theory = Theory(<<>>)
    /\ query = None
    /\ logic = LUKASIEWICZ
    /\ m = Model
    /\ res = FALSE
    /\ \E heap \in heaps :
          pc = [heap |-> heap, inputs |-> inputs,
                val |-> [o \in SlotObjects |->
                            IF heap[o].type = "Const" THEN heap[o].val ELSE nan],
                models |-> 0, limit |-> limit,
                th |-> [t \in 1..n |->
                           [phase |-> "idle", model |-> 0, roots |-> <<>>, todo |-> <<>>,
                            stack |-> <<>>, trav |-> [o \in SlotObjects |-> 0],
                            cts |-> {}]]]

SlotNext ==
    \E t \in DOMAIN pc.th :
        \/ entails_begin(t)
        \/ reset_step(t)
        \/ reset_end(t)
        \/ configure_step(t)
        \/ entails_return(t)

\* One client calling entails MaxCalls times, one call after the other.
SlotInit == SlotInitOf(1, MaxCalls, SlotHeaps, RootLists)

SlotSpec == SlotInit /\ [][SlotNext]_vars

\* The same client with every step of a call eventually taken.
CycleSpec == SlotInit /\ [][SlotNext]_vars /\ WF_vars(SlotNext)

\* Two threads calling entails once each, their steps interleaved, on the
\* heaps without a cycle.
RaceInit ==
    SlotInitOf(2, 0, {heap \in SlotHeaps : heap[1].operands[1] # 1 /\ heap[2].operands[1] # 1},
               {<<1>>, <<2>>, <<5>>})

RaceSpec == RaceInit /\ [][SlotNext]_vars

(***************************************************************************)
(* The semantics the library is specified against: truth values of         *)
(* formulae under an assignment, in units of 1/Den                         *)
(***************************************************************************)
RECURSIVE PropsOf(_)

PropsOf(f) ==
    IF f.type = "Prop" THEN {f.name}
    ELSE IF f.type = "Const" THEN {}
    ELSE UNION {PropsOf(f.operands[i]) : i \in 1..Len(f.operands)}

RECURSIVE Value(_, _, _)

\* The operator table; an operator's own override decides its connective.
Value(f, A, lg) ==
    IF f.type = "Prop" THEN A[f.name]
    ELSE IF f.type = "Const" THEN f.val * Den
    ELSE LET own == IF f.logic # NoLogic THEN f.logic ELSE lg
             v == [i \in 1..Len(f.operands) |-> Value(f.operands[i], A, lg)]
             vs == {v[i] : i \in 1..Len(v)}
         IN  CASE f.type = "And" ->
                    IF own = GODEL THEN MinOf(vs)
                    ELSE MaxOf({0, Den - SumSeq([i \in 1..Len(v) |-> Den - v[i]], 1)})
               [] f.type = "WeakAnd" -> MinOf(vs)
               [] f.type = "Or" ->
                    IF own = GODEL THEN MaxOf(vs) ELSE MinOf({Den, SumSeq(v, 1)})
               [] f.type = "WeakOr" -> MaxOf(vs)
               [] f.type = "Implies" ->
                    IF own = GODEL THEN (IF v[1] <= v[2] THEN Den ELSE v[2])
                    ELSE MinOf({Den, Den - v[1] + v[2]})
               [] f.type = "Equiv" ->
                    IF own = GODEL THEN (IF v[1] = v[2] THEN Den ELSE MinOf(vs))
                    ELSE Den - AbsVal(v[1] - v[2])
               [] f.type = "Not" ->
                    IF own = GODEL THEN (IF v[1] = 0 THEN Den ELSE 0) ELSE Den - v[1]
               [] f.type = "Inv" -> Den - v[1]
               [] f.type = "Delta" -> IF v[1] = Den THEN Den ELSE 0
               [] f.type = "Nabla" -> IF v[1] > 0 THEN Den ELSE 0

\* v / Den lies in the interval.
InInterval(v, iv) ==
    /\ IF iv.class \in {"ClosedInterval", "OpenUpperInterval"}
       THEN v * iv.lower.d >= iv.lower.n * Den
       ELSE v * iv.lower.d > iv.lower.n * Den
    /\ IF iv.class \in {"ClosedInterval", "OpenLowerInterval"}
       THEN v * iv.upper.d <= iv.upper.n * Den
       ELSE v * iv.upper.d < iv.upper.n * Den

\* The assignment puts the sentence's formula inside its union of intervals.
Satisfies(sen, A, lg) ==
    \E i \in 1..Len(sen.intervals) : InInterval(Value(sen.formula, A, lg), sen.intervals[i])

\* Semantic entailment over the assignments of the grid; None is satisfied
\* by no assignment.
Entailed(T, q, lg) ==
    LET qs == IF IsFormula(q) THEN SimpleSentence(q, <<Point(One)>>) ELSE q
        props == UNION ({PropsOf(T[i].formula) : i \in 1..Len(T)}
                        \cup {IF IsNone(qs) THEN {} ELSE PropsOf(qs.formula)})
    IN  \A A \in [props -> 0..Den] :
            (\A i \in 1..Len(T) : Satisfies(T[i], A, lg))
                => (~IsNone(qs) /\ Satisfies(qs, A, lg))

\* Two Python numbers have the same value (nan equals nothing).
SameReal(r, s) == r.d # 0 /\ s.d # 0 /\ r.n * s.d = s.n * r.d

RECURSIVE StructurallyEqual(_, _)

\* Structural equality: the same variant, element-wise equal operands, the
\* same override, the same name, value, coefficient or exponent.
StructurallyEqual(f, g) ==
    /\ f.type = g.type
    /\ CASE f.type = "Prop" -> f.name = g.name
         [] f.type = "Const" -> f.val = g.val
         [] OTHER ->
              /\ f.logic = g.logic
              /\ Len(f.operands) = Len(g.operands)
              /\ \A i \in 1..Len(f.operands) : StructurallyEqual(f.operands[i], g.operands[i])
              /\ f.type = "Coef" => SameReal(f.coef, g.coef)
              /\ f.type = "Exp" => SameReal(f.exp, g.exp)

\* The arguments a constructor must accept: bounds with 0 <= lower <= upper
\* <= 1, a list of at least one interval, a scalar that is a number >= 0.
ValidArgs(args) ==
    CASE args.class \in IntervalClasses ->
            /\ 0 <= args.lower.n
            /\ args.lower.n * args.upper.d <= args.upper.n * args.lower.d
            /\ args.upper.n <= args.upper.d
      [] args.class = "SimpleSentence" -> args.intervals # <<>>
      [] OTHER -> args.scalar.d # 0 /\ args.scalar.n >= 0

RECURSIVE OnStack(_, _, _, _)
RECURSIVE OnStackJoin(_, _, _, _, _)

\* The operands of self printed with self on the stack.
OnStackJoin(fn, heap, self, i, stack) ==
    LET ops == heap[self].operands
        sep == IF fn = "repr" THEN ", " ELSE " " \o symb(heap[self].type) \o " "
    IN  IF i > Len(ops) THEN ""
        ELSE OnStack(fn, heap, ops[i], stack) \o (IF i < Len(ops) THEN sep ELSE "")
             \o OnStackJoin(fn, heap, self, i + 1, stack)

\* The print the specification asks for: stack holds the operators entered
\* and not left, outermost first; an operator found at place j of a stack of
\* length n is printed as n - j + 2 dots, the depth difference plus one.
OnStack(fn, heap, self, stack) ==
    LET node == heap[self]
        at == {j \in 1..Len(stack) : stack[j] = self}
        inner == Append(stack, self)
    IN  IF node.type = "Prop" THEN (IF fn = "repr" THEN "Prop('" \o node.name \o "')" ELSE node.name)
        ELSE IF at # {} THEN Dots(Len(stack) - MaxOf(at) + 2)
        ELSE IF fn = "repr"
             THEN node.type \o "(" \o OnStackJoin(fn, heap, self, 1, inner)
                  \o (IF node.logic # NoLogic THEN ", logic=" \o node.logic ELSE "") \o ")"
        ELSE IF IsUnaryOperator(node.type)
             THEN symb(node.type) \o OnStack(fn, heap, node.operands[1], inner)
        ELSE "(" \o OnStackJoin(fn, heap, self, 1, inner) \o ")"

\* f = Or(); f.operands = [f, Not(f)]
OrOfItself ==
    [i \in Objects |->
        CASE i = 1 -> Operator("Or", <<1, 2>>, NoLogic)
          [] i = 2 -> Operator("Not", <<1>>, NoLogic)
          [] i = 3 -> Operator("Implies", <<4, 4>>, GODEL)
          [] i = 4 -> a]

\* The logic whose defining constraints the model holds for an operator f
\* without override: the names and kinds that _add_constraints leaves.
EncodedUnder(f, mm) ==
    LET named(suffix) == get_constraint_by_name(mm, Repr(f) \o suffix)
        impl(lg) == WithLogic(Implies(f.operands[1], Const(0)), lg)
    IN  CASE f.type = "And" ->
                {lg \in Logic : named(".constraint") # 0 /\
                    mm.cts[named(".constraint")].kind = (IF lg = GODEL THEN "eq_min" ELSE "eq_luk_and")}
          [] f.type = "Or" ->
                {lg \in Logic : named(".constraint") # 0 /\
                    mm.cts[named(".constraint")].kind = (IF lg = GODEL THEN "eq_max" ELSE "eq_luk_or")}
          [] f.type = "Implies" ->
                {lg \in Logic : IF lg = GODEL THEN get_var_by_name(mm, Repr(f) \o ".lhs_le_rhs") # 0
                                ELSE named(".constraint") # 0}
          [] f.type = "Equiv" ->
                {lg \in Logic : IF lg = GODEL THEN get_var_by_name(mm, Repr(f) \o ".lhs_eq_rhs") # 0
                                ELSE named(".constraint") # 0}
          [] f.type = "Not" ->
                {lg \in Logic :
                    IF lg = GODEL THEN get_var_by_name(mm, Repr(impl(GODEL)) \o ".lhs_le_rhs") # 0
                    ELSE get_constraint_by_name(mm, Repr(impl(LUKASIEWICZ)) \o ".constraint") # 0}

RECURSIVE Nodes(_)

\* The formula nodes reachable from f, f included.
Nodes(f) ==
    IF IsOperator(f)
    THEN {f} \cup UNION {Nodes(f.operands[i]) : i \in 1..Len(f.operands)}
    ELSE {f}

\* The formula nodes reachable from the premises T and the query q.
Reachable(T, q) ==
    UNION ({Nodes(T[i].formula) : i \in 1..Len(T)}
           \cup (IF IsNone(q) THEN {}
                 ELSE IF IsFormula(q) THEN {Nodes(q)} ELSE {Nodes(q.formula)}))

\* The constraints of mm that define the value variable of f: one plain
\* equation, or the equation of the active side of one indicator pair.
Definitions(f, mm) ==
    {i \in 1..Len(mm.cts) :
        mm.cts[i].def /\ mm.cts[i].act = 1 /\ mm.cts[i].out = ValOf(f, mm)}

\* The value variables of mm: the continuous variables Formula.configure adds.
ValueVariables(mm) == {i \in 1..Len(mm.vars) : mm.vars[i].kind = "continuous"}

\* The canonical names of the nodes reachable from T and q that are no Const.
CanonicalNames(T, q) == {Repr(f) : f \in {g \in Reachable(T, q) : g.type # "Const"}}

RECURSIVE Instance(_, _, _)

\* f is ax with s[i + 1] put for the proposition p_i: at an operator of ax,
\* the same class, the same override, the same arity, operand by operand.
Instance(f, ax, s) ==
    IF ax.type = "Prop" THEN f = s[index(ax) + 1]
    ELSE IF ax.type = "Const" THEN f = ax
    ELSE /\ f.type = ax.type
         /\ f.logic = ax.logic
         /\ Len(f.operands) = Len(ax.operands)
         /\ \A i \in 1..Len(ax.operands) : Instance(f.operands[i], ax.operands[i], s)

RECURSIVE Subformulae(_)

Subformulae(f) ==
    IF IsOperator(f)
    THEN {f} \cup UNION {Subformulae(f.operands[i]) : i \in 1..Len(f.operands)}
    ELSE {f}

\* Some uniform substitution of subformulae of f for the propositions of ax
\* yields f.
StructuralInstance(f, ax) ==
    \E s \in [1..degree(ax) -> Subformulae(f)] : Instance(f, ax, s)

\* The formula without an outermost double negation written differently:
\* Not(x) and Inv(x) lose the negation, anything else gains one.
Negated(f) == IF f.type \in {"Not", "Inv"} THEN f.operands[1] ELSE Not(f)

RECURSIVE Match(_, _, _)

\* f is ax under the mapping mu up to double negation and contraposition:
\* a negation of ax is matched by the negated f, an implication of ax by an
\* implication, operand by operand or contraposed, any other operator by an
\* equal formula.
Match(f, ax, mu) ==
    IF ax.type = "Prop"
    THEN ~IsNone(mu[index(ax) + 1]) /\ Repr(mu[index(ax) + 1]) = Repr(f)
    ELSE IF ax.type \in {"Not", "Inv"} THEN Match(Negated(f), ax.operands[1], mu)
    ELSE IF ax.type = "Implies"
         THEN /\ f.type = "Implies"
              /\ \/ /\ Match(f.operands[1], ax.operands[1], mu)
                    /\ Match(f.operands[2], ax.operands[2], mu)
                 \/ /\ Match(Negated(f.operands[2]), ax.operands[1], mu)
                    /\ Match(Negated(f.operands[1]), ax.operands[2], mu)
    ELSE f.type = ax.type /\ f.logic = ax.logic /\ Repr(f) = Repr(ax)

RECURSIVE Size(_)

\* size(Prop) = size(Const) = 0; an operator, Not included, has 1 plus the
\* sizes of its operands.
Size(f) ==
    IF IsOperator(f)
    THEN 1 + SumSeq([i \in 1..Len(f.operands) |-> Size(f.operands[i])], 1)
    ELSE 0

RECURSIVE ImplicationSize(_)

\* The size that counts the implications only: Not(x) has the size of x.
ImplicationSize(f) ==
    IF ~IsOperator(f) THEN 0
    ELSE IF f.type = "Not" THEN ImplicationSize(f.operands[1])
    ELSE 1 + SumSeq([i \in 1..Len(f.operands) |-> ImplicationSize(f.operands[i])], 1)

\* The objects reachable from the objects of S through operands.
RECURSIVE ReachFrom(_, _)

ReachFrom(heap, S) ==
    LET more == S \cup UNION { {heap[o].operands[x] : x \in 1..Len(heap[o].operands)} :
                            o \in {n \in S : IsOperator(heap[n])} }
    IN  IF more = S THEN S ELSE ReachFrom(heap, more)

\* The Prop and Operator nodes reachable from the premises and the query of
\* the call of thread t.
NodesOf(t) ==
    { o \in ReachFrom(pc.heap, {pc.th[t].roots[x] : x \in 1..Len(pc.th[t].roots)}) :
        pc.heap[o].type # "Const" }

\* Thread t has ended its reset phase and not yet started to configure.
ResetEnded(t) ==
    /\ pc.th[t].phase = "configure"
    /\ pc.th[t].todo = pc.th[t].roots
    /\ pc.th[t].stack = <<>>

\* Thread t has configured its premises and its query.
Configured(t) ==
    \/ pc.th[t].phase = "returned"
    \/ pc.th[t].phase = "configure" /\ pc.th[t].todo = <<>> /\ pc.th[t].stack = <<>>

\* The slot of o holds a variable of the model of thread t.
OwnVariable(t, o) == IsVar(pc.val[o]) /\ pc.val[o].model = pc.th[t].model

\* A node of the call of thread t is not in the state the call itself left
\* it in: not cleared at the end of the reset phase, or without a variable of
\* the model of t once t has configured it.
Interfered(t) ==
    \/ ResetEnded(t) /\ \E o \in NodesOf(t) : pc.val[o] # None
    \/ Configured(t) /\ \E o \in NodesOf(t) : ~OwnVariable(t, o)

\* The operator of every frame on the stack of thread t was cleared, in the
\* reset phase, or given a variable of the model of t, in the configure phase,
\* before the loop over its operands began.
MarkedBeforeRecursing(t) ==
    \A x \in 1..Len(pc.th[t].stack) :
        IF pc.th[t].phase = "reset"
        THEN pc.val[pc.th[t].stack[x].self] = None
        ELSE OwnVariable(t, pc.th[t].stack[x].self)

\* Every constraint of the model of thread t is over variables of that model
\* and the values of constants: no operand was still unassigned when the
\* constraint was built.
ConstraintsAssigned(t) ==
    \A c \in pc.th[t].cts :
        /\ IsVar(c.val) /\ c.val.model = c.model
        /\ \A x \in 1..Len(c.refs) :
              \/ IsVar(c.refs[x]) /\ c.refs[x].model = c.model
              \/ pc.heap[pc.heap[c.self].operands[x]].type = "Const"

(***************************************************************************)
(* The claims                                                              *)
(***************************************************************************)
\* C1: whenever entails has returned, its result is True exactly when every
\* assignment that satisfies all the premises also satisfies the query.
C1_EntailsIffEntailed ==
    pc = "entails" => res = Entailed(theory, query, logic)

\* C2: whenever satisfiable has returned, its result is the negation of
\* entails(None) and also the negation of entails of Const(0) with truth 1.
C2_SatisfiableDuality ==
    pc = "satisfiable" =>
        /\ res = ~Theory_entails(theory, None, logic)
        /\ res = ~Theory_entails(theory, Const(0), logic)
        /\ res = ~Theory_entails(theory, SimpleSentence(Const(0), <<Point(One)>>), logic)

C2_Witness ==
    /\ pc = "satisfiable"
    /\ theory = Theory(<<a, Not(a)>>)
    /\ logic = GODEL
    /\ ~res

BasicLogicTests ==
    {"test_hajek_axioms", "test_hajek_implication", "test_hajek_conjunction",
     "test_hajek_weak_conjunction", "test_hajek_weak_disjunction", "test_hajek_negation",
     "test_hajek_associativity", "test_hajek_equivalence", "test_hajek_distributivity",
     "test_hajek_delta_operator"}

\* C3: every call that hajek_test makes for a list of basic fuzzy logic is a
\* call on the empty theory that returns True, under GODEL and LUKASIEWICZ.
C3_BasicLogicEntailed ==
    (pc.test \in BasicLogicTests /\ IsFormula(query)) =>
        (theory = <<>> /\ res /\ pc.ok)

C3_Witness ==
    /\ pc.test = "test_hajek_axioms"
    /\ pc.done
    /\ pc.ok
    /\ query = axioms[8]
    /\ logic = LUKASIEWICZ
    /\ res

\* C4: every formula of the list lukasiewicz is entailed by the empty theory
\* under LUKASIEWICZ and not entailed by it under GODEL.
C4_LukasiewiczOnly ==
    (pc.test = "test_hajek_lukasiewicz" /\ IsFormula(query)) =>
        /\ theory = <<>>
        /\ \E i \in 1..Len(lukasiewicz) : query = lukasiewicz[i]
        /\ res = (logic = LUKASIEWICZ)
        /\ pc.ok

C4_Witness ==
    /\ pc.test = "test_hajek_lukasiewicz"
    /\ pc.run = 2
    /\ query = Or(<<phi, Not(phi)>>)
    /\ logic = GODEL
    /\ ~res

\* C5: every formula of the list godel is entailed by the empty theory under
\* GODEL and not entailed by it under LUKASIEWICZ.
C5_GodelOnly ==
    (pc.test = "test_hajek_godel" /\ IsFormula(query)) =>
        /\ theory = <<>>
        /\ \E i \in 1..Len(godel) : query = godel[i]
        /\ res = (logic = GODEL)
        /\ pc.ok

C5_Witness ==
    /\ pc.test = "test_hajek_godel"
    /\ pc.run = 2
    /\ query = Implies(phi, And(<<phi, phi>>))
    /\ logic = LUKASIEWICZ
    /\ ~res

\* C6 as stated: De Morgan's law is entailed by the empty theory under
\* LUKASIEWICZ and not entailed by it under GODEL.
C6_DeMorganLukasiewiczOnly ==
    (pc = "entails" /\ theory = <<>> /\ query = DeMorgan) =>
        res = (logic = LUKASIEWICZ)

\* C6 amended: De Morgan's law is entailed by the empty theory under
\* LUKASIEWICZ and under GODEL.
C6_DeMorganBothLogics ==
    (pc = "entails" /\ theory = <<>> /\ query = DeMorgan) => res

C6_Witness ==
    /\ pc = "entails"
    /\ theory = <<>>
    /\ query = DeMorgan
    /\ logic = GODEL
    /\ res

\* C7: under each logic the empty theory does not entail the formula of
\* boolean_test, and the theory that puts phi and psi in {0} u {1} entails it.
C7_BooleanRestriction ==
    (pc.test \in DOMAIN BooleanTestCase /\ IsFormula(query)) =>
        /\ query = formula
        /\ logic = BooleanTestCase[pc.test]
        /\ theory = <<>> => ~res
        /\ theory # <<>> => (theory = boolean_theory /\ res /\ pc.done)
        /\ pc.ok

C7_Witness ==
    /\ pc.test = "test_boolean_godel"
    /\ pc.done
    /\ pc.ok
    /\ theory = boolean_theory
    /\ logic = GODEL
    /\ res

\* C8: for every k the test visits, the theory of all 2^k clauses is
\* unsatisfiable under GODEL and satisfiable under LUKASIEWICZ, and without
\* any one of its clauses it is satisfiable under GODEL.
C8_CompleteClauseSets ==
    /\ (pc.step = "partial" /\ ~pc.done) =>
            (theory = Theory(sat_test_s(pc.k)) /\ logic = GODEL /\ ~res)
    /\ (pc.step = "full_lukasiewicz") =>
            (theory = Theory(Without(sat_test_s(pc.k), pc.i)) /\ logic = GODEL /\ res)
    /\ (pc.step = "excluded") =>
            (theory = Theory(sat_test_s(pc.k)) /\ logic = LUKASIEWICZ /\ res)
    /\ pc.step \in {"full_godel", "partial", "partial_godel", "full_lukasiewicz", "excluded"}
            => pc.ok

C8_Witness ==
    /\ pc.k = MaxK
    /\ pc.step = "full_lukasiewicz"
    /\ pc.i = 2 ^ MaxK - 1
    /\ theory = Theory(Without(sat_test_s(MaxK), 2 ^ MaxK - 1))
    /\ logic = GODEL
    /\ res

\* C9: for every k >= 3 the test visits, the 2^k clauses together with the
\* sentences x_i in LessThan(1/k) u GreaterThan((k-1)/k) are unsatisfiable
\* under LUKASIEWICZ, and without any one clause they are satisfiable.
C9_ExcludedMiddleBoundary ==
    /\ (pc.step = "partial_excluded" /\ ~pc.done) =>
            /\ theory = Theory(sat_test_s(pc.k) \o sat_test_exclusions(pc.k))
            /\ logic = LUKASIEWICZ
            /\ ~res
    /\ (pc.step = "end") =>
            /\ theory = Theory(Without(sat_test_s(pc.k), pc.i) \o sat_test_exclusions(pc.k))
            /\ logic = LUKASIEWICZ
            /\ res
    /\ pc.ok

C9_Witness ==
    /\ pc.k = 3
    /\ pc.step = "end"
    /\ pc.i = 0
    /\ theory = Theory(Without(sat_test_s(3), 0) \o sat_test_exclusions(3))
    /\ logic = LUKASIEWICZ
    /\ res

\* C10: the theory of the cat scenario entails its query under LUKASIEWICZ,
\* with the GODEL override on the Or and with it on the Implies as in demo_cat.
C10_CatEntailed ==
    (pc = "entails" /\ query = demo_cat_query1 /\ logic = LUKASIEWICZ
        /\ theory \in {Theory(<<demo_cat_s1, cat_s2_override_on_Or>>), demo_cat_theory1}) => res

C10_Witness ==
    /\ pc = "entails"
    /\ theory = Theory(<<demo_cat_s1, cat_s2_override_on_Or>>)
    /\ query = demo_cat_query1
    /\ logic = LUKASIEWICZ
    /\ res

\* C11: when satisfiable returned False for a theory, it returns False again
\* after one sentence has been added to the theory at any position.
C11_UnsatisfiableStaysUnsatisfiable ==
    (pc.step = "done" /\ ~pc.before) => ~res

\* C12: when specializes(f, a), called with EQUAL or with AT_LEAST, returned
\* a mapping and the empty theory entails a, the empty theory entails f.
C12_SpecializationSound ==
    (pc.step = "done" /\ pc.mappings # <<>> /\ pc.axiom) => res

C12_Witness ==
    /\ pc.step = "done"
    /\ pc.req = AT_LEAST
    /\ pc.ax = Implies(p(0), p(0))
    /\ pc.f = Implies(Implies(p(0), p(1)), Implies(p(1), p(1)))
    /\ pc.mappings # <<>>
    /\ pc.axiom
    /\ res

\* C13: two formulae have the same repr exactly when they are structurally
\* equal, and f == g returns exactly that.
C13_ReprRoundTrip ==
    pc.step = "done" =>
        /\ (pc.repr_f = pc.repr_g) = StructurallyEqual(query, pc.g)
        /\ res = StructurallyEqual(query, pc.g)

\* C14: a construction raises an error exactly when its arguments are not
\* valid, and satisfiable is reached with objects of valid arguments only.
C14_ConstructionErrors ==
    /\ pc.step = "constructed" => (pc.raised = ~ValidArgs(pc.args))
    /\ pc.step = "called" => ValidArgs(pc.args)

\* C15: for a theory and a query built from Props, Consts, WeakAnd, WeakOr,
\* Inv, Delta, Nabla, Coef and Exp, the call under LUKASIEWICZ builds the
\* model that the call under GODEL built and returns the same result,
\* for entails and for satisfiable.
C15_AmbientLogicIgnored ==
    pc.step \in {"entails_both", "satisfiable_both"} =>
        /\ logic = LUKASIEWICZ
        /\ m = pc.m
        /\ res = pc.res

C15_Witness ==
    /\ pc.step = "entails_both"
    /\ theory = Theory(<<>>)
    /\ pc.q = SimpleSentence(WeakOr(<<a, Inv(a)>>), <<AtLeast(Frac(1, 2))>>)
    /\ logic = LUKASIEWICZ
    /\ m = pc.m
    /\ res
    /\ pc.res

\* C16: repr and str return on every formula, cyclic or not; an operator met
\* again while it is being printed appears as (depth difference + 1) dots;
\* no object keeps a depth marker after a call, and a second repr returns
\* the string of the first.
C16_CycleSafePrinting ==
    /\ pc.step # "start" =>
            /\ pc.repr = OnStack("repr", pc.heap, pc.f, <<>>)
            /\ \A i \in Objects : pc.depths[i] = NoDepth
    /\ pc.step \in {"str", "again"} => pc.str = OnStack("str", pc.heap, pc.f, <<>>)
    /\ pc.step = "again" => pc.again = pc.repr
    /\ (pc.step = "again" /\ pc.heap = OrOfItself /\ pc.f = 1) =>
            (pc.repr = "Or(.., Not(...))" /\ pc.str = "(.. ⊕ ¬...)")

C16_Witness ==
    /\ pc.step = "again"
    /\ pc.heap = OrOfItself
    /\ pc.f = 1
    /\ pc.repr = "Or(.., Not(...))"
    /\ pc.str = "(.. ⊕ ¬...)"
    /\ pc.again = "Or(.., Not(...))"
    /\ \A i \in Objects : pc.depths[i] = NoDepth

\* C17: after configure, an operator without override that is an operand of
\* an operator with an override is encoded under that override, and under
\* the logic passed to entails when the outer operator has none.
C17_OverrideReachesOperands ==
    pc.step = "done" =>
        EncodedUnder(pc.inner, m) = {IF query.logic # NoLogic THEN query.logic ELSE logic}

\* C18: after the premises and the query of an entails call have been
\* configured, every operator reachable from them has its defining
\* constraints in the model, over its own value variable, exactly once.
C18_EveryOperatorDefinedOnce ==
    pc = "entails" =>
        \A f \in Reachable(theory, query) :
            IsOperator(f) => Cardinality(Definitions(f, m)) = 1

\* C19: after an entails call the model holds one value variable per
\* distinct canonical name of the reachable nodes that are no Const, however
\* often a name occurs, and configuring a node of any of these names once
\* more adds no variable, no auxiliary binary and no constraint.
C19_MemoizedByCanonicalName ==
    pc = "entails" =>
        /\ {m.vars[i].name : i \in ValueVariables(m)}
                = {n \o ".val" : n \in CanonicalNames(theory, query)}
        /\ Cardinality(ValueVariables(m)) = Cardinality(CanonicalNames(theory, query))
        /\ \A f \in Reachable(theory, query) : configure(f, m, logic) = m

\* The premises a and Not(a) and the query Or(a, Not(a)): five occurrences
\* of nodes under three names.
C19_Witness ==
    /\ pc = "entails"
    /\ theory = Theory(<<a, Not(a)>>)
    /\ query = Or(<<a, Not(a)>>)
    /\ Cardinality(ValueVariables(m)) = 3

\* C20: the constraints of SimpleSentence.configure have a solution with the
\* formula at v and gap above the tolerance only if v lies in one of the
\* sentence's intervals, and those of SimpleSentence.compliment only if v
\* lies outside every one of them; the complement of [0, 1] has none.
C20_SentenceEncodings ==
    /\ (pc.step = "configured" /\ res) =>
            \E i \in 1..Len(pc.s.intervals) : InInterval(pc.v, pc.s.intervals[i])
    /\ (pc.step = "complimented" /\ res) =>
            \A i \in 1..Len(pc.s.intervals) : ~InInterval(pc.v, pc.s.intervals[i])
    /\ (pc.step = "complimented" /\ (\E i \in 1..Len(pc.s.intervals) : pc.s.intervals[i] = ClosedInterval(Zero, One)))
            => ~res

\* A value outside both intervals of a union is admitted by compliment.
C20_Witness ==
    /\ pc.step = "complimented"
    /\ pc.s.intervals = <<Point(One), OpenInterval(Frac(1, 4), Frac(3, 4))>>
    /\ pc.v = 0
    /\ res

C22_SizeIndexedTable ==
    \A s \in 1..Len(pc.formulae) : \A i \in 1..Len(pc.formulae[s]) :
        Size(pc.formulae[s][i]) = s - 1

\* C22 as amended: at every point of all_axioms every formula in formulae[s]
\* holds exactly s implications; a Not adds nothing to the size.
C22_ImplicationSizeIndexedTable ==
    \A s \in 1..Len(pc.formulae) : \A i \in 1..Len(pc.formulae[s]) :
        ImplicationSize(pc.formulae[s][i]) = s - 1

\* The buckets of the sizes 1 and 2 hold formulae with a negation.
C22_Witness ==
    /\ Len(pc.formulae) >= 3
    /\ \E i \in 1..Len(pc.formulae[2]) : pc.formulae[2][i] = Implies(Not(p(0)), p(1))
    /\ \E i \in 1..Len(pc.formulae[3]) :
            pc.formulae[3][i].operands[2].type = "Not" /\ Size(pc.formulae[3][i]) > 2


\* The candidates check_if_axiom has finished with, and those it appended to
\* a bucket as building blocks (formulae[0] starts with p0, which is no
\* candidate).
Processed == pc.done + (IF pc.step \in {"candidate", "entails"} THEN pc.n - 1 ELSE 0)

Appended == SumSeq([s \in 1..Len(pc.formulae) |-> Len(pc.formulae[s])], 1) - 1

\* C23: in a run of all_axioms every candidate ends in exactly one of three
\* outcomes (discarded, recorded as an axiom, appended to the current bucket),
\* no formula is recorded as an axiom twice, and no recorded axiom
\* specializes another recorded axiom.
C23_AxiomFilter ==
    /\ pc.outcome \in {"", "discarded", "recorded", "appended"}
    /\ Processed = pc.discarded + Len(pc.axioms) + Appended
    /\ \A i, j \in 1..Len(pc.axioms) : i # j =>
          /\ pc.axioms[i] # pc.axioms[j]
          /\ specializes(pc.axioms[i], pc.axioms[j], EQUAL, no_mappings(pc.axioms[j])) = <<>>

\* Two axioms are recorded, after a candidate was discarded and another was
\* appended as a building block.
C23_Witness ==
    /\ Len(pc.axioms) >= 2
    /\ pc.discarded >= 1
    /\ Appended >= 1
    /\ pc.outcome = "recorded"


\* C24: in a sequence of entails / satisfiable calls over shared node
\* objects, at the end of a call's reset phase every Prop and Operator node
\* reachable from the call's premises and query has its slot cleared, at the
\* call's return each of them holds a variable of the model of that call,
\* and the value of a Const node never changes.
C24_NoStaleSlots ==
    \A t \in DOMAIN pc.th :
        /\ ResetEnded(t) => \A o \in NodesOf(t) : pc.val[o] = None
        /\ pc.th[t].phase = "returned" => \A o \in NodesOf(t) : OwnVariable(t, o)
        /\ \A o \in SlotObjects : pc.heap[o].type = "Const" => pc.val[o] = pc.heap[o].val

\* The third call has returned, on a cyclic graph of three nodes that now hold
\* variables of the third model.
C24_Witness ==
    /\ pc.th[1].phase = "returned"
    /\ pc.th[1].model = 3
    /\ pc.heap[1].operands = <<2, 3>>
    /\ pc.heap[2].operands = <<1>>
    /\ pc.th[1].roots = <<1, 2>>
    /\ \A o \in {1, 2, 3} : pc.val[o] = Var(3, var_name(pc.heap, o))


\* C25: when the reset and configure phases of two entails calls are
\* interleaved, a node of one call can hold a variable of the model of the
\* other call, or be cleared after the first call configured it, only if the
\* two calls share a node object; calls on disjoint node objects never
\* affect each other's slots.
C25_InterferenceOnlyWhenShared ==
    \A t, u \in DOMAIN pc.th :
        t # u /\ Interfered(t) => NodesOf(t) \cap NodesOf(u) # {}

\* Thread t is about to solve while thread u is still encoding: a node of t
\* holds a variable of the model of u, and a constraint of the model of t
\* refers to that variable.
C25_Witness ==
    \E t, u \in DOMAIN pc.th :
        /\ t # u
        /\ pc.th[t].phase = "configure" /\ Configured(t)
        /\ pc.th[u].phase = "configure"
        /\ \E o \in NodesOf(t) : IsVar(pc.val[o]) /\ pc.val[o].model = pc.th[u].model
        /\ \E c \in pc.th[t].cts : \E x \in 1..Len(c.refs) :
              IsVar(c.refs[x]) /\ c.refs[x].model = pc.th[u].model


\* C26: reset and configure terminate on cyclic formula graphs: a node is
\* cleared, or assigned its variable, before its operands are visited, the
\* operands of a node are traversed at most once in the reset phase and at
\* most once in the configure phase of a call, every constraint refers to
\* assigned variables only, and every call that starts returns.
C26_TerminatesOnCycles ==
    /\ [](/\ MarkedBeforeRecursing(1)
          /\ ConstraintsAssigned(1)
          /\ \A o \in SlotObjects : pc.th[1].trav[o] <= 1)
    /\ (pc.th[1].phase = "reset" ~> pc.th[1].phase = "returned")

\* In the cycle Or(Not(Or(...)), a) the constraint of the Not has been built
\* over the variable of the Or, whose own loop over its operands is still
\* running.
C26_Witness ==
    /\ pc.heap[1].operands = <<2, 3>>
    /\ pc.heap[2].operands = <<1>>
    /\ pc.th[1].phase = "configure"
    /\ pc.th[1].stack # <<>>
    /\ pc.th[1].stack[1].self = 1
    /\ \E c \in pc.th[1].cts :
          c.self = 2 /\ c.refs = <<Var(pc.th[1].model, var_name(pc.heap, 1))>>

====
